---------------------------- MODULE Spec2Model ----------------------------
(***************************************************************************)
(* Iterative-deepening game-tree search of pyplayergames/agents/minimax.py *)
(* (IDDFSAgent, MaxnAgent, ParanoidAgent) run on the abstract tree game of *)
(* pyboardgames/games/abstract/game.py.                                    *)
(*                                                                         *)
(* depth_search is recursive; the model keeps its call stack explicitly    *)
(* and takes one step per call entry and one per return into a caller.     *)
(* random.choice and the wall clock are nondeterministic choices.          *)
(***************************************************************************)
EXTENDS Integers, Sequences, FiniteSets, TLC

VARIABLES
    game,        \* the Tree handed to get_move (players, bounds, vertices)
    cfg,         \* the agent's constructor arguments
    ttable,      \* self.ttable: OrderedDict, least recently used first
    complete,    \* self.complete
    root_turn,   \* self._turn
    depth_sum,   \* self.depth_sum
    move_count,  \* self.move_count
    pc,          \* where get_move is: "idle", "search", "done", "error" (it raised)
    saved_move,  \* get_move's local saved_move
    depth,       \* get_move's local depth
    stack,       \* the depth_search frames, outermost first
    ret,         \* the value the last finished depth_search call returned
    result,      \* the move get_move returned (0: none yet)
    timedOut,    \* history: a depth_search call of this get_move saw the deadline passed
    selected,    \* history: the initial random move, then each finished iteration's pv[-1]
    iters,       \* history: the depths the root depth_search was started with
    usedRandom,  \* history: a tiebreak drew random.choice((True, False))
    gameCalls,   \* history: game-contract calls made by this get_move
    rootScore,   \* history: the score the last finished root depth_search returned
    first,       \* history: what the first agent of a pair did on this tree
    touched,     \* history: hashes touched in the table, oldest first
    looked,      \* history: the last recorded access_ttable call and what it returned
    ck,          \* the checkers objects: Gamestate instances, their boards and dicts
    applied,     \* history: the last direct call of _is_better or prune and its result
    horizon,     \* history: this iteration entered depth_search with depth 0 on a position not over
    match        \* a checkers Match while run plays a game: its attributes, the GUI flags, the pipe, the agent process

vars == <<game, cfg, ttable, complete, root_turn, depth_sum, move_count, pc,
          saved_move, depth, stack, ret, result, timedOut, selected, iters,
          usedRandom, gameCalls, rootScore, first, touched, looked, ck, applied, horizon, match>>

(***************************************************************************)
(* Bounds of the model.                                                    *)
(***************************************************************************)
MaxSum == 2       \* the scores of a vertex are naturals that sum to MaxSum
MaxCap == 2       \* t_cap ranges over 1..MaxCap
NumHashes == 3    \* hashes of the table-only specification
MaxOps == 5       \* table operations of the table-only specification
MaxCalls == 2     \* get_move calls on one agent between two resets
MaxStates == 3    \* Gamestate instances of one checkers game alive at once
hash_length == 5  \* Gamestate._hash_length, the bits of one hash_key entry

(***************************************************************************)
(* The game: pyboardgames.games.abstract.game.Tree.                        *)
(***************************************************************************)
Nodes == 1..7
Root == 1

\* The list-of-lists trees: the children of each vertex, in move order.
ShapeB == [n \in Nodes |-> CASE n = 1 -> <<2, 3>>
                             [] n = 3 -> <<4, 5>>
                             [] n = 4 -> <<6, 7>>
                             [] OTHER -> <<>>]
ShapeC == [n \in Nodes |-> CASE n = 1 -> <<2, 3>>
                             [] n = 3 -> <<4, 5>>
                             [] OTHER -> <<>>]
\* A root with one move.
ShapeD == [n \in Nodes |-> CASE n = 1 -> <<2>>
                             [] n = 2 -> <<3, 4>>
                             [] OTHER -> <<>>]
\* A line of second children: each later child has a later child of its own.
ShapeE == [n \in Nodes |-> CASE n = 1 -> <<2, 3>>
                             [] n = 3 -> <<4, 5>>
                             [] n = 5 -> <<6, 7>>
                             [] OTHER -> <<>>]
\* A tree that is its root alone.
ShapeLeaf == [n \in Nodes |-> <<>>]

RECURSIVE LevelOf(_, _)
\* Number of get_next calls that lead from the root to vertex n.
LevelOf(kids, n) ==
    IF n = Root THEN 0
    ELSE LET ps == {p \in Nodes : \E i \in 1..Len(kids[p]) : kids[p][i] = n}
         IN  IF ps = {} THEN 0 ELSE 1 + LevelOf(kids, CHOOSE p \in ps : TRUE)

RECURSIVE InTree(_, _)
InTree(kids, n) ==
    \/ n = Root
    \/ \E p \in Nodes : /\ \E i \in 1..Len(kids[p]) : kids[p][i] = n
                        /\ InTree(kids, p)

\* Tree.score: the tuple at the vertex; one component per player.
ScoreTuples(p) ==
    {t \in [1..p -> 0..MaxSum] : IF p = 2 THEN t[1] + t[2] = MaxSum
                                 ELSE t[1] + t[2] + t[3] = MaxSum}

GameLower == -1

\* Tree.valid_moves: Edge(1) .. Edge(len(tree) - 1).
valid_moves(n) == 1..Len(game.kids[n])
\* Tree.get_next: the subtree the edge leads to (its turn is the next player's).
get_next(n, m) == game.kids[n][m]
\* Tree.is_game_over: no subtree is left. A game may also end by rule at a
\* position that still has moves (CheckersGamestate.winner: a draw after 80
\* plies without a capture); game.drawn holds those positions.
is_game_over(n) == Len(game.kids[n]) = 0 \/ n \in game.drawn
\* Tree.score
score(n) == game.score[n]
\* Tree.turn, 0-based as in the source.
turn(n) == game.turn[n]
\* hasattr(gamestate, 'hash_value')
has_hash(n) == game.hashed
hash_value(n) == n


\* What the agent reads of a position: hasattr(gamestate, 'hash_value'), the hash,
\* and the game constants access_ttable falls back on.
GS(n) == [hashed |-> has_hash(n), hash_value |-> hash_value(n),
          upper_sum |-> game.upper_sum, players |-> game.players]

(***************************************************************************)
(* The transposition table: an OrderedDict, modelled as the sequence of    *)
(* its (key, value) items in order, least recently used first.             *)
(***************************************************************************)
Keys(tt) == {tt[i].h : i \in 1..Len(tt)}
IndexOf(tt, h) == CHOOSE i \in 1..Len(tt) : tt[i].h = h
Without(tt, h) == SelectSeq(tt, LAMBDA e : e.h # h)
\* OrderedDict.move_to_end(key); raises KeyError (here: not applicable) when absent.
move_to_end(tt, h) == Append(Without(tt, h), tt[IndexOf(tt, h)])
\* OrderedDict.__setitem__: a new key goes last, an old key keeps its place.
set_item(tt, h, s) ==
    IF h \in Keys(tt) THEN [tt EXCEPT ![IndexOf(tt, h)] = [h |-> h, s |-> s]]
    ELSE Append(tt, [h |-> h, s |-> s])
\* OrderedDict.popitem(last=False)
popitem_first(tt) == Tail(tt)

\* access_ttable without move_to_end: a hit leaves the order as it was.
access_ttable_peek(tt, g, t) ==
    IF g.hashed /\ g.hash_value \in Keys(tt)
    THEN [tt  |-> tt,
          hit |-> TRUE,
          key |-> tt[IndexOf(tt, g.hash_value)].s[t + 1] * g.players]
    ELSE [tt |-> tt, hit |-> FALSE, key |-> g.upper_sum]

\* IDDFSAgent.access_ttable. The sort key is kept as an integer: the source's
\* ttable[h][turn] and upper_sum / players, both multiplied by players.
access_hit(tt, g) == g.hashed /\ g.hash_value \in Keys(tt)
access_ttable(tt, g, t) ==
    IF access_hit(tt, g)
    THEN [tt  |-> move_to_end(tt, g.hash_value),
          hit |-> TRUE,
          key |-> tt[IndexOf(tt, g.hash_value)].s[t + 1] * g.players]
    ELSE [tt |-> tt, hit |-> FALSE, key |-> g.upper_sum]

\* update_ttable that does not test self.t_enable.
update_ttable_unguarded(tt, g, s) ==
    IF g.hashed
    THEN LET put == move_to_end(set_item(tt, g.hash_value, s), g.hash_value)
         IN  IF Len(put) > cfg.t_cap THEN popitem_first(put) ELSE put
    ELSE tt

\* update_ttable without move_to_end: an overwritten entry keeps its place.
update_ttable_in_place(tt, g, s) ==
    IF cfg.t_enable /\ g.hashed
    THEN LET put == set_item(tt, g.hash_value, s)
         IN  IF Len(put) > cfg.t_cap THEN popitem_first(put) ELSE put
    ELSE tt

\* IDDFSAgent.update_ttable
update_ttable(tt, g, s) ==
    IF cfg.t_enable /\ g.hashed
    THEN LET put == move_to_end(set_item(tt, g.hash_value, s), g.hash_value)
         IN  IF Len(put) > cfg.t_cap THEN popitem_first(put) ELSE put
    ELSE tt

(***************************************************************************)
(* The strategy hooks of the three agent classes.                          *)
(***************************************************************************)
\* float('inf'): larger than any score component of the model's games.
Inf == MaxSum + 1
NoScore == <<>>
NoKwargs == [tag |-> "empty", bound |-> 0, alpha |-> 0, beta |-> 0]
Max(a, b) == IF a >= b THEN a ELSE b
Min(a, b) == IF a <= b THEN a ELSE b
\* Python's int ^ bool
XorBit(a, b) == IF ~b THEN a ELSE IF a % 2 = 0 THEN a + 1 ELSE a - 1

RECURSIVE AccessAll(_, _, _, _)
\* The key function of sorted(): access_ttable on each child in list order, each
\* hit moving its entry to the end. Returns the table and the keys.
AccessAll(tt, n, t, i) ==
    IF i > Len(game.kids[n]) THEN [tt |-> tt, keys |-> <<>>]
    ELSE LET a    == access_ttable(tt, GS(get_next(n, i)), t)
             rest == AccessAll(a.tt, n, t, i + 1)
         IN  [tt |-> rest.tt, keys |-> <<a.key>> \o rest.keys]

\* sorted(list, key=..., reverse=desc): stable in both directions.
StableSort(keys, desc) ==
    LET k == Len(keys)
        Before(j, i) == \/ IF desc THEN keys[j] > keys[i] ELSE keys[j] < keys[i]
                        \/ keys[j] = keys[i] /\ j < i
        Pos(i) == 1 + Cardinality({j \in 1..k : Before(j, i)})
    IN  [q \in 1..k |-> CHOOSE i \in 1..k : Pos(i) = q]

\* order_moves whose ParanoidAgent sorts with reverse=True at every position.
order_moves_descending(tt, n) ==
    LET k == Len(game.kids[n])
    IN  CASE cfg.kind = "iddfs" -> [tt |-> tt, order |-> [i \in 1..k |-> i]]
          [] cfg.kind = "maxn" ->
               LET a == AccessAll(tt, n, turn(n), 1)
               IN  [tt |-> a.tt, order |-> StableSort(a.keys, TRUE)]
          [] cfg.kind = "paranoid" ->
               LET a == AccessAll(tt, n, root_turn, 1)
               IN  [tt |-> a.tt, order |-> StableSort(a.keys, TRUE)]

\* order_moves of IDDFSAgent, MaxnAgent, ParanoidAgent: the moves in search order
\* (the paired next states are get_next of each) and the table after the lookups.
order_moves(tt, n) ==
    LET k == Len(game.kids[n])
    IN  CASE cfg.kind = "iddfs" -> [tt |-> tt, order |-> [i \in 1..k |-> i]]
          [] cfg.kind = "maxn" ->
               LET a == AccessAll(tt, n, turn(n), 1)
               IN  [tt |-> a.tt, order |-> StableSort(a.keys, TRUE)]
          [] cfg.kind = "paranoid" ->
               LET a == AccessAll(tt, n, root_turn, 1)
               IN  [tt |-> a.tt, order |-> StableSort(a.keys, turn(n) = root_turn)]

\* maxn_prune that cuts off only above the bound, not at it.
maxn_prune_strict(n, best, kw) ==
    IF ~cfg.pruning THEN FALSE
    ELSE best[turn(n) + 1] > kw.bound

\* MaxnAgent.prune
maxn_prune(n, best, kw) ==
    IF ~cfg.pruning THEN FALSE
    ELSE best[turn(n) + 1] >= kw.bound

\* ParanoidAgent.prune
paranoid_prune(n, best, kw) ==
    IF ~cfg.pruning THEN FALSE
    ELSE IF turn(n) = root_turn /\ best[root_turn + 1] > kw.beta THEN TRUE
    ELSE IF best[root_turn + 1] < kw.alpha THEN TRUE
    ELSE FALSE

prune(n, best, kw) ==
    CASE cfg.kind = "iddfs" -> FALSE
      [] cfg.kind = "maxn" -> maxn_prune(n, best, kw)
      [] cfg.kind = "paranoid" -> paranoid_prune(n, best, kw)

\* MaxnAgent.calc_kwargs
maxn_calc_kwargs(n, best, kw) ==
    LET bs == IF best = NoScore THEN [i \in 1..game.players |-> game.lower] ELSE best
        correction == -(game.players - 2) * game.lower
    IN  [tag |-> "bound",
         bound |-> game.upper_sum - bs[turn(n) + 1] + correction,
         alpha |-> 0, beta |-> 0]

\* paranoid_calc_kwargs that takes the best score as the new limit without
\* comparing it with the window received.
paranoid_calc_kwargs_last(n, best, kw) ==
    IF kw.tag = "empty" THEN [tag |-> "ab", bound |-> 0, alpha |-> -Inf, beta |-> Inf]
    ELSE IF best = NoScore THEN [kw EXCEPT !.tag = "ab"]
    ELSE IF turn(n) = root_turn
         THEN [kw EXCEPT !.alpha = best[root_turn + 1]]
         ELSE [kw EXCEPT !.beta = best[root_turn + 1]]

\* ParanoidAgent.calc_kwargs
paranoid_calc_kwargs(n, best, kw) ==
    IF kw.tag = "empty" THEN [tag |-> "ab", bound |-> 0, alpha |-> -Inf, beta |-> Inf]
    ELSE IF best = NoScore THEN [kw EXCEPT !.tag = "ab"]
    ELSE IF turn(n) = root_turn
         THEN [kw EXCEPT !.alpha = Max(kw.alpha, best[root_turn + 1])]
         ELSE [kw EXCEPT !.beta = Min(kw.beta, best[root_turn + 1])]

calc_kwargs(n, best, kw) ==
    CASE cfg.kind = "iddfs" -> NoKwargs
      [] cfg.kind = "maxn" -> maxn_calc_kwargs(n, best, kw)
      [] cfg.kind = "paranoid" -> paranoid_calc_kwargs(n, best, kw)

\* MaxnAgent.tiebreak; coin is what random.choice((True, False)) draws.
maxn_tiebreak(new, old, t, coin) ==
    IF new[root_turn + 1] < old[root_turn + 1] THEN TRUE ELSE coin

\* maxn_is_better that compares the root player's component, not the mover's.
maxn_is_better_root(new, old, t, coin) ==
    IF new[root_turn + 1] > old[root_turn + 1] THEN TRUE
    ELSE IF new[root_turn + 1] = old[root_turn + 1] THEN maxn_tiebreak(new, old, t, coin)
    ELSE FALSE

\* MaxnAgent._is_better
maxn_is_better(new, old, t, coin) ==
    IF new[t + 1] > old[t + 1] THEN TRUE
    ELSE IF new[t + 1] = old[t + 1] THEN maxn_tiebreak(new, old, t, coin)
    ELSE FALSE

\* ParanoidAgent._is_better: == binds looser than ^, so the test reads
\* turn == (self._turn ^ (new < old)).
paranoid_is_better(new, old, t, coin) ==
    IF new[root_turn + 1] = old[root_turn + 1] THEN coin
    ELSE IF t = XorBit(root_turn, new[root_turn + 1] < old[root_turn + 1]) THEN TRUE
    ELSE FALSE

is_better(new, old, t, coin) ==
    CASE cfg.kind = "iddfs" -> FALSE
      [] cfg.kind = "maxn" -> maxn_is_better(new, old, t, coin)
      [] cfg.kind = "paranoid" -> paranoid_is_better(new, old, t, coin)

\* Whether _is_better reaches random.choice for these scores.
draws_coin(new, old, t) ==
    CASE cfg.kind = "iddfs" -> FALSE
      [] cfg.kind = "maxn" -> /\ new[t + 1] = old[t + 1]
                              /\ ~(new[root_turn + 1] < old[root_turn + 1])
      [] cfg.kind = "paranoid" -> new[root_turn + 1] = old[root_turn + 1]

(***************************************************************************)
(* depth_search's frames and return values.                                *)
(***************************************************************************)
NoRet == [tag |-> "none", score |-> NoScore, pv |-> <<>>]
\* return None, None
Expired == [tag |-> "expired", score |-> NoScore, pv |-> <<>>]
Ok(s, pv) == [tag |-> "ok", score |-> s, pv |-> pv]

\* A call depth_search(gamestate, depth, **kwargs) that has not run yet.
CallFrame(n, d, kw) ==
    [node |-> n, depth |-> d, kw |-> kw, st |-> "call", order |-> <<>>, idx |-> 0,
     best_score |-> NoScore, best_move |-> 0, best_pv |-> <<>>]

Top == stack[Len(stack)]
Pop == SubSeq(stack, 1, Len(stack) - 1)

\* No checkers match is being played.
NoMatch == [running |-> FALSE]

historyVars == <<selected, iters, rootScore, first, touched, looked, ck, applied, horizon, match>>
agentConfig == <<game, cfg>>

\* GetMove without the random default: saved_move starts as no move at all.
GetMoveNoDefault ==
    /\ pc = "idle"
    /\ valid_moves(Root) # {}
    /\ saved_move' = 0
    /\ selected' = <<0>>
    /\ root_turn' = turn(Root)
    /\ depth' = 1
    /\ complete' = TRUE
    /\ stack' = <<CallFrame(Root, 1, calc_kwargs(Root, NoScore, NoKwargs))>>
    /\ ret' = NoRet
    /\ pc' = "search"
    /\ timedOut' = FALSE
    /\ usedRandom' = FALSE
    /\ gameCalls' = 1
    /\ iters' = <<1>>
    /\ result' = 0
    /\ UNCHANGED <<agentConfig, ttable, depth_sum, move_count, rootScore, first, touched, looked, ck, applied>>
    /\ horizon' = FALSE /\ UNCHANGED match

\* GetMove that starts every call on an empty table.
GetMoveClearsTable ==
    /\ pc = "idle"
    /\ valid_moves(Root) # {}
    /\ \E m \in valid_moves(Root) :
          /\ saved_move' = m
          /\ selected' = <<m>>
    /\ root_turn' = turn(Root)
    /\ depth' = 1
    /\ complete' = TRUE
    /\ stack' = <<CallFrame(Root, 1, calc_kwargs(Root, NoScore, NoKwargs))>>
    /\ ret' = NoRet
    /\ pc' = "search"
    /\ timedOut' = FALSE
    /\ usedRandom' = FALSE
    /\ gameCalls' = 1
    /\ iters' = <<1>>
    /\ result' = 0
    /\ ttable' = <<>>
    /\ UNCHANGED <<agentConfig, depth_sum, move_count, rootScore, first, touched, looked, ck, applied>>
    /\ horizon' = FALSE /\ UNCHANGED match

(***************************************************************************)
(* IDDFSAgent.get_move, up to the first depth_search call.                 *)
(***************************************************************************)
GetMove ==
    /\ pc = "idle"
    /\ valid_moves(Root) # {}
    /\ \E m \in valid_moves(Root) :              \* random.choice(valid_moves)
          /\ saved_move' = m
          /\ selected' = <<m>>
    /\ root_turn' = turn(Root)
    /\ depth' = 1
    /\ complete' = TRUE
    /\ stack' = <<CallFrame(Root, 1, calc_kwargs(Root, NoScore, NoKwargs))>>
    /\ ret' = NoRet
    /\ pc' = "search"
    /\ timedOut' = FALSE
    /\ usedRandom' = FALSE
    /\ gameCalls' = 1
    /\ iters' = <<1>>
    /\ result' = 0
    /\ UNCHANGED <<agentConfig, ttable, depth_sum, move_count, rootScore, first, touched, looked, ck, applied>>
    /\ horizon' = FALSE /\ UNCHANGED match

(***************************************************************************)
(* IDDFSAgent.depth_search, entry: the clock, the terminal test, the depth *)
(* test, or the ordering of the moves and the first child's call.          *)
(***************************************************************************)
Entering == pc = "search" /\ stack # <<>> /\ Top.st = "call"

\* time.time() - self._time_ini >= self.time: the clock may have passed the
\* deadline at any entry.
DepthSearchExpired ==
    /\ Entering
    /\ ret' = Expired
    /\ stack' = Pop
    /\ timedOut' = TRUE
    /\ UNCHANGED <<agentConfig, ttable, complete, root_turn, depth_sum, move_count, pc,
                   saved_move, depth, result, usedRandom, gameCalls, historyVars>>

\* DepthSearchTerminal that notes the tree as incomplete when the game ends
\* where the depth runs out.
DepthSearchTerminalClears ==
    /\ pc = "search" /\ stack # <<>> /\ Top.st = "call"
    /\ ~timedOut
    /\ is_game_over(Top.node)
    /\ complete' = (complete /\ Top.depth # 0)
    /\ ret' = Ok(score(Top.node), <<>>)
    /\ stack' = Pop
    /\ gameCalls' = gameCalls + 2
    /\ UNCHANGED <<agentConfig, ttable, root_turn, depth_sum, move_count, pc,
                   saved_move, depth, result, timedOut, usedRandom, historyVars>>

DepthSearchTerminal ==
    /\ Entering
    /\ ~timedOut
    /\ is_game_over(Top.node)
    /\ ret' = Ok(score(Top.node), <<>>)
    /\ stack' = Pop
    /\ gameCalls' = gameCalls + 2
    /\ UNCHANGED <<agentConfig, ttable, complete, root_turn, depth_sum, move_count, pc,
                   saved_move, depth, result, timedOut, usedRandom, historyVars>>

\* DepthSearchHorizon that does not note the tree as incomplete.
DepthSearchHorizonQuiet ==
    /\ pc = "search" /\ stack # <<>> /\ Top.st = "call"
    /\ ~timedOut
    /\ ~is_game_over(Top.node)
    /\ Top.depth = 0
    /\ ret' = Ok(score(Top.node), <<>>)
    /\ stack' = Pop
    /\ gameCalls' = gameCalls + 2
    /\ UNCHANGED <<agentConfig, ttable, complete, root_turn, depth_sum, move_count, pc,
                   saved_move, depth, result, timedOut, usedRandom, historyVars>>

DepthSearchHorizon ==
    /\ Entering
    /\ ~timedOut
    /\ ~is_game_over(Top.node)
    /\ Top.depth = 0
    /\ complete' = FALSE
    /\ ret' = Ok(score(Top.node), <<>>)
    /\ stack' = Pop
    /\ gameCalls' = gameCalls + 2
    /\ UNCHANGED <<agentConfig, ttable, root_turn, depth_sum, move_count, pc,
                   saved_move, depth, result, timedOut, usedRandom, selected, iters,
                   rootScore, first, touched, looked, ck, applied>>
    /\ horizon' = TRUE /\ UNCHANGED match

DepthSearchExpand ==
    /\ Entering
    /\ ~timedOut
    /\ ~is_game_over(Top.node)
    /\ Top.depth # 0
    /\ LET f  == Top
           om == order_moves(ttable, f.node)
           kw == calc_kwargs(f.node, NoScore, f.kw)
       IN  /\ ttable' = om.tt
           /\ stack' = Append([stack EXCEPT ![Len(stack)] =
                                  [f EXCEPT !.st = "loop", !.order = om.order, !.idx = 1]],
                              CallFrame(get_next(f.node, om.order[1]), f.depth - 1, kw))
           /\ gameCalls' = gameCalls + 2 + Len(game.kids[f.node])
    /\ ret' = NoRet
    /\ UNCHANGED <<agentConfig, complete, root_turn, depth_sum, move_count, pc,
                   saved_move, depth, result, timedOut, usedRandom, historyVars>>

(***************************************************************************)
(* IDDFSAgent.depth_search, after a child's call has returned.             *)
(***************************************************************************)
Resuming == pc = "search" /\ stack # <<>> /\ Top.st = "loop" /\ ret.tag # "none"

\* DepthSearchUnwind that stores the frame's best score so far before returning.
DepthSearchUnwindStoring ==
    /\ pc = "search" /\ stack # <<>> /\ Top.st = "loop" /\ ret.tag # "none"
    /\ ret.tag = "expired"
    /\ stack' = Pop
    /\ ttable' = IF Top.best_score = NoScore THEN ttable
                 ELSE update_ttable(ttable, GS(Top.node), Top.best_score)
    /\ UNCHANGED <<agentConfig, complete, root_turn, depth_sum, move_count, pc,
                   saved_move, depth, ret, result, timedOut, usedRandom, gameCalls,
                   historyVars>>

\* DepthSearchUnwind that falls back on the position's heuristic score.
DepthSearchUnwindScoring ==
    /\ pc = "search" /\ stack # <<>> /\ Top.st = "loop" /\ ret.tag # "none"
    /\ ret.tag = "expired"
    /\ stack' = Pop
    /\ gameCalls' = gameCalls + 1
    /\ UNCHANGED <<agentConfig, ttable, complete, root_turn, depth_sum, move_count, pc,
                   saved_move, depth, ret, result, timedOut, usedRandom, historyVars>>

\* if best_score is None / if score is None: return None, None
DepthSearchUnwind ==
    /\ Resuming
    /\ ret.tag = "expired"
    /\ stack' = Pop
    /\ UNCHANGED <<agentConfig, ttable, complete, root_turn, depth_sum, move_count, pc,
                   saved_move, depth, ret, result, timedOut, usedRandom, gameCalls,
                   historyVars>>

\* The frame after it has taken the child's result: the first child initialises
\* the trackers, a later child replaces them when _is_better says so.
Taken(f, coin) ==
    IF f.idx = 1 \/ is_better(ret.score, f.best_score, turn(f.node), coin)
    THEN [f EXCEPT !.best_score = ret.score, !.best_move = f.order[f.idx],
                   !.best_pv = ret.pv]
    ELSE f

DrawsCoin(f) == f.idx # 1 /\ draws_coin(ret.score, f.best_score, turn(f.node))

\* The for loop goes on to the next child: no more children, or prune() breaks.
LoopEnds(f) == \/ f.idx = Len(f.order)
               \/ prune(f.node, f.best_score, f.kw)

\* DepthSearchNext that stores the best score so far before each later child.
DepthSearchNextStoring ==
    /\ pc = "search" /\ stack # <<>> /\ Top.st = "loop" /\ ret.tag # "none"
    /\ ret.tag = "ok"
    /\ \E coin \in (IF DrawsCoin(Top) THEN BOOLEAN ELSE {FALSE}) :
          LET f  == Taken(Top, coin)
              kw == calc_kwargs(f.node, f.best_score, f.kw)
          IN  /\ ~LoopEnds(f)
              /\ ttable' = update_ttable(ttable, GS(f.node), f.best_score)
              /\ stack' = Append([stack EXCEPT ![Len(stack)] = [f EXCEPT !.idx = f.idx + 1]],
                                 CallFrame(get_next(f.node, f.order[f.idx + 1]),
                                           f.depth - 1, kw))
    /\ usedRandom' = (usedRandom \/ DrawsCoin(Top))
    /\ ret' = NoRet
    /\ UNCHANGED <<agentConfig, complete, root_turn, depth_sum, move_count, pc,
                   saved_move, depth, result, timedOut, gameCalls, historyVars>>

DepthSearchNext ==
    /\ Resuming
    /\ ret.tag = "ok"
    /\ \E coin \in (IF DrawsCoin(Top) THEN BOOLEAN ELSE {FALSE}) :
          LET f  == Taken(Top, coin)
              kw == calc_kwargs(f.node, f.best_score, f.kw)
          IN  /\ ~LoopEnds(f)
              /\ stack' = Append([stack EXCEPT ![Len(stack)] = [f EXCEPT !.idx = f.idx + 1]],
                                 CallFrame(get_next(f.node, f.order[f.idx + 1]),
                                           f.depth - 1, kw))
    /\ usedRandom' = (usedRandom \/ DrawsCoin(Top))
    /\ ret' = NoRet
    /\ UNCHANGED <<agentConfig, ttable, complete, root_turn, depth_sum, move_count, pc,
                   saved_move, depth, result, timedOut, gameCalls, historyVars>>

\* DepthSearchReturn that puts the position's move in front of the child's line.
DepthSearchReturnPrepend ==
    /\ pc = "search" /\ stack # <<>> /\ Top.st = "loop" /\ ret.tag # "none"
    /\ ret.tag = "ok"
    /\ \E coin \in (IF DrawsCoin(Top) THEN BOOLEAN ELSE {FALSE}) :
          LET f == Taken(Top, coin)
          IN  /\ LoopEnds(f)
              /\ ttable' = update_ttable(ttable, GS(f.node), f.best_score)
              /\ ret' = Ok(f.best_score, <<f.best_move>> \o f.best_pv)
    /\ usedRandom' = (usedRandom \/ DrawsCoin(Top))
    /\ stack' = Pop
    /\ UNCHANGED <<agentConfig, complete, root_turn, depth_sum, move_count, pc,
                   saved_move, depth, result, timedOut, gameCalls, historyVars>>

DepthSearchReturn ==
    /\ Resuming
    /\ ret.tag = "ok"
    /\ \E coin \in (IF DrawsCoin(Top) THEN BOOLEAN ELSE {FALSE}) :
          LET f == Taken(Top, coin)
          IN  /\ LoopEnds(f)
              /\ ttable' = update_ttable(ttable, GS(f.node), f.best_score)
              /\ ret' = Ok(f.best_score, Append(f.best_pv, f.best_move))
    /\ usedRandom' = (usedRandom \/ DrawsCoin(Top))
    /\ stack' = Pop
    /\ UNCHANGED <<agentConfig, complete, root_turn, depth_sum, move_count, pc,
                   saved_move, depth, result, timedOut, gameCalls, historyVars>>

(***************************************************************************)
(* IDDFSAgent.get_move, after the root's depth_search call has returned.   *)
(***************************************************************************)
Returned == pc = "search" /\ stack = <<>> /\ ret.tag # "none"

\* GetMoveTimeout that returns the first legal move instead of saved_move.
GetMoveTimeoutFirstMove ==
    /\ pc = "search" /\ stack = <<>> /\ ret.tag # "none"
    /\ ret.tag = "expired"
    /\ depth_sum' = depth_sum + depth - 1
    /\ move_count' = move_count + 1
    /\ result' = 1
    /\ pc' = "done"
    /\ UNCHANGED <<agentConfig, ttable, complete, root_turn, saved_move, depth, stack,
                   ret, timedOut, usedRandom, gameCalls, historyVars>>

\* if score is None: return saved_move
GetMoveTimeout ==
    /\ Returned
    /\ ret.tag = "expired"
    /\ depth_sum' = depth_sum + depth - 1
    /\ move_count' = move_count + 1
    /\ result' = saved_move
    /\ pc' = "done"
    /\ UNCHANGED <<agentConfig, ttable, complete, root_turn, saved_move, depth, stack,
                   ret, timedOut, usedRandom, gameCalls, historyVars>>

\* saved_move = pv[-1]; if self.complete is True: return saved_move
GetMoveComplete ==
    /\ Returned
    /\ ret.tag = "ok"
    /\ ret.pv # <<>>
    /\ complete
    /\ saved_move' = ret.pv[Len(ret.pv)]
    /\ depth_sum' = depth_sum + depth
    /\ move_count' = move_count + 1
    /\ result' = saved_move'
    /\ pc' = "done"
    /\ selected' = Append(selected, ret.pv[Len(ret.pv)])
    /\ rootScore' = ret.score
    /\ UNCHANGED <<agentConfig, ttable, complete, root_turn, depth, stack, ret,
                   timedOut, usedRandom, gameCalls, iters, first, touched, looked, ck, applied, horizon, match>>

\* GetMoveDeepen that searches the same depth again.
GetMoveDeepenSameDepth ==
    /\ pc = "search" /\ stack = <<>> /\ ret.tag # "none"
    /\ ret.tag = "ok"
    /\ ret.pv # <<>>
    /\ ~complete
    /\ depth < 4
    /\ saved_move' = ret.pv[Len(ret.pv)]
    /\ depth' = depth + 1
    /\ complete' = TRUE
    /\ stack' = <<CallFrame(Root, depth, calc_kwargs(Root, NoScore, NoKwargs))>>
    /\ ret' = NoRet
    /\ selected' = Append(selected, ret.pv[Len(ret.pv)])
    /\ iters' = Append(iters, depth)
    /\ rootScore' = ret.score
    /\ UNCHANGED <<agentConfig, ttable, root_turn, depth_sum, move_count, pc, result,
                   timedOut, usedRandom, gameCalls, first, touched, looked, ck, applied>>
    /\ horizon' = FALSE /\ UNCHANGED match

\* saved_move = pv[-1]; depth += 1; and the loop's next depth_search call
GetMoveDeepen ==
    /\ Returned
    /\ ret.tag = "ok"
    /\ ret.pv # <<>>
    /\ ~complete
    /\ saved_move' = ret.pv[Len(ret.pv)]
    /\ depth' = depth + 1
    /\ complete' = TRUE
    /\ stack' = <<CallFrame(Root, depth + 1, calc_kwargs(Root, NoScore, NoKwargs))>>
    /\ ret' = NoRet
    /\ selected' = Append(selected, ret.pv[Len(ret.pv)])
    /\ iters' = Append(iters, depth + 1)
    /\ rootScore' = ret.score
    /\ UNCHANGED <<agentConfig, ttable, root_turn, depth_sum, move_count, pc, result,
                   timedOut, usedRandom, gameCalls, first, touched, looked, ck, applied>>
    /\ horizon' = FALSE /\ UNCHANGED match

(***************************************************************************)
(* The games and agents a run starts from.                                 *)
(***************************************************************************)
Leaves(kids) == {n \in Nodes : InTree(kids, n) /\ Len(kids[n]) = 0}
Inner(kids) == {n \in Nodes : n # Root /\ InTree(kids, n) /\ Len(kids[n]) > 0}
FixedScore(p) == [i \in 1..p |-> IF i = 1 THEN MaxSum ELSE 0]

\* Tree(tree, players, upper, lower, upper_sum, turn) with the vertex scores f.
\* The root's score is never read by a search; it and the vertices f leaves out
\* carry one fixed tuple.
Game(k, p, t0, f) ==
    [players |-> p, lower |-> GameLower, upper_sum |-> MaxSum, hashed |-> TRUE,
     kids |-> k, drawn |-> {},
     turn |-> [n \in Nodes |-> (t0 + LevelOf(k, n)) % p],
     score |-> [n \in Nodes |-> IF n \in DOMAIN f THEN f[n] ELSE FixedScore(p)]]

\* Every leaf takes any score tuple; with heur, every inner vertex does too.
Games(k, p, turns, heur) ==
    { Game(k, p, t0, f) :
        t0 \in turns,
        f \in [Leaves(k) \cup (IF heur THEN Inner(k) ELSE {}) -> ScoreTuples(p)] }

\* IDDFSAgent.__init__ (name, time and verbose do not reach the search).
Configs(kinds, prunings, caps) ==
    [kind : kinds, pruning : prunings, t_enable : {TRUE}, t_cap : caps]

\* IDDFSAgent.reset, as __init__ calls it.
FreshAgent ==
    /\ ttable = <<>>
    /\ complete = TRUE
    /\ root_turn = -1
    /\ depth_sum = 0
    /\ move_count = 0

NoLookup == [h |-> 0, turn |-> 0, at |-> 0, value |-> 0]
NoApplied == [fn |-> "none", root |-> 0, mover |-> 0, new |-> <<>>, old |-> <<>>,
              alpha |-> 0, beta |-> 0, pruning |-> FALSE, out |-> FALSE]
NoCheckers == [states |-> <<>>, boards |-> <<>>, dicts |-> <<>>, key |-> <<>>, log |-> <<>>]

NoCall ==
    /\ pc = "idle"
    /\ saved_move = 0
    /\ depth = 0
    /\ stack = <<>>
    /\ ret = NoRet
    /\ result = 0
    /\ timedOut = FALSE
    /\ selected = <<>>
    /\ iters = <<>>
    /\ usedRandom = FALSE
    /\ gameCalls = 0
    /\ rootScore = NoScore
    /\ first = [done |-> FALSE, move |-> 0, score |-> NoScore, random |-> FALSE]
    /\ touched = <<>>
    /\ looked = NoLookup
    /\ ck = NoCheckers
    /\ applied = NoApplied
    /\ horizon = FALSE
    /\ match = NoMatch

Init ==
    /\ game \in Games(ShapeB, 2, {0}, FALSE) \cup Games(ShapeC, 2, {0, 1}, TRUE)
    /\ cfg \in Configs({"iddfs", "maxn", "paranoid"}, {TRUE}, 1..MaxCap)
    /\ FreshAgent
    /\ NoCall

\* The steps of a get_move call whose time budget is never used up.
NextAmple ==
    \/ GetMove
    \/ DepthSearchTerminal
    \/ DepthSearchHorizon
    \/ DepthSearchExpand
    \/ DepthSearchNext
    \/ DepthSearchReturn
    \/ GetMoveComplete
    \/ GetMoveDeepen

\* The steps that follow the deadline.
NextLate ==
    \/ DepthSearchExpired
    \/ DepthSearchUnwind
    \/ GetMoveTimeout

Next == NextAmple \/ NextLate

Spec == Init /\ [][Next]_vars

(***************************************************************************)
(* A get_move call with enough time: the deadline never passes.            *)
(***************************************************************************)
InitAmple ==
    /\ game \in Games(ShapeB, 2, {0, 1}, FALSE) \cup Games(ShapeC, 2, {0, 1}, TRUE)
                \cup Games(ShapeC, 3, {0, 1, 2}, FALSE)
    /\ cfg \in Configs({"maxn", "paranoid"}, {FALSE}, {MaxCap})
    /\ FreshAgent
    /\ NoCall

SpecAmple == InitAmple /\ [][NextAmple]_vars

(***************************************************************************)
(* Two agents of one class on the same tree, as the tests build them: the  *)
(* first with prune_enable=False, the second with pruning left enabled.    *)
(***************************************************************************)
SecondAgent ==
    /\ pc = "done"
    /\ ~first.done
    /\ first' = [done |-> TRUE, move |-> result, score |-> rootScore,
                 random |-> usedRandom]
    /\ cfg' = [cfg EXCEPT !.pruning = TRUE]
    /\ ttable' = <<>>
    /\ complete' = TRUE
    /\ root_turn' = -1
    /\ depth_sum' = 0
    /\ move_count' = 0
    /\ pc' = "idle"
    /\ saved_move' = 0
    /\ depth' = 0
    /\ ret' = NoRet
    /\ result' = 0
    /\ selected' = <<>>
    /\ iters' = <<>>
    /\ usedRandom' = FALSE
    /\ gameCalls' = 0
    /\ rootScore' = NoScore
    /\ UNCHANGED <<game, stack, timedOut, touched, looked, ck, applied, horizon, match>>

InitPair ==
    /\ game \in Games(ShapeB, 2, {0, 1}, FALSE) \cup Games(ShapeC, 2, {0, 1}, TRUE)
    /\ cfg \in Configs({"maxn", "paranoid"}, {FALSE}, {MaxCap})
    /\ FreshAgent
    /\ NoCall

NextPair == NextAmple \/ SecondAgent

SpecPair == InitPair /\ [][NextPair]_vars

(***************************************************************************)
(* get_move on roots with one move, with no move, or where the game is     *)
(* over: get_move tests none of these, so the first two lines that cannot  *)
(* run raise IndexError.                                                   *)
(***************************************************************************)
\* saved_move = random.choice(gamestate.valid_moves) on an empty list.
GetMoveNoMoves ==
    /\ pc = "idle"
    /\ valid_moves(Root) = {}
    /\ root_turn' = turn(Root)
    /\ gameCalls' = 1
    /\ pc' = "error"
    /\ UNCHANGED <<agentConfig, ttable, complete, depth_sum, move_count, saved_move,
                   depth, stack, ret, result, timedOut, usedRandom, historyVars>>

\* saved_move = pv[-1] on the empty pv a terminal root returns.
GetMoveNoPv ==
    /\ Returned
    /\ ret.tag = "ok"
    /\ ret.pv = <<>>
    /\ rootScore' = ret.score
    /\ pc' = "error"
    /\ UNCHANGED <<agentConfig, ttable, complete, root_turn, depth_sum, move_count,
                   saved_move, depth, stack, ret, result, timedOut, usedRandom,
                   gameCalls, selected, iters, first, touched, looked, ck, applied, horizon, match>>

\* The game is over at the root although the root has moves.
Drawn(g) == [g EXCEPT !.drawn = {Root}]

InitRoots ==
    /\ \/ game \in Games(ShapeD, 2, {0, 1}, FALSE)
       \/ game \in Games(ShapeLeaf, 2, {0, 1}, FALSE)
       \/ \E g \in Games(ShapeD, 2, {0, 1}, FALSE) : game = Drawn(g)
    /\ cfg \in Configs({"iddfs", "maxn", "paranoid"}, {TRUE}, {MaxCap})
    /\ FreshAgent
    /\ NoCall

NextRoots == Next \/ GetMoveNoMoves \/ GetMoveNoPv

SpecRoots == InitRoots /\ [][NextRoots]_vars

(***************************************************************************)
(* One agent over several get_move calls, with reset() between calls.      *)
(***************************************************************************)
\* get_move has returned its move to the caller: its locals are gone, the
\* agent's fields stay, and the agent can be called again.
GetMoveReturned ==
    /\ pc = "done"
    /\ pc' = "idle"
    /\ saved_move' = 0
    /\ depth' = 0
    /\ ret' = NoRet
    /\ result' = 0
    /\ timedOut' = FALSE
    /\ selected' = <<>>
    /\ iters' = <<>>
    /\ usedRandom' = FALSE
    /\ gameCalls' = 0
    /\ rootScore' = NoScore
    /\ horizon' = FALSE /\ UNCHANGED match
    /\ UNCHANGED <<agentConfig, ttable, complete, root_turn, depth_sum, move_count,
                   stack, first, touched, looked, ck, applied>>

\* reset() that keeps the transposition table.
ResetKeepsTable ==
    /\ pc = "idle"
    /\ move_count > 0
    /\ complete' = TRUE
    /\ root_turn' = -1
    /\ depth_sum' = 0
    /\ move_count' = 0
    /\ UNCHANGED <<agentConfig, ttable, pc, saved_move, depth, stack, ret, result,
                   timedOut, usedRandom, gameCalls, historyVars>>

\* IDDFSAgent.reset, called between two get_move calls.
Reset ==
    /\ pc = "idle"
    /\ move_count > 0
    /\ ttable' = <<>>
    /\ complete' = TRUE
    /\ root_turn' = -1
    /\ depth_sum' = 0
    /\ move_count' = 0
    /\ UNCHANGED <<agentConfig, pc, saved_move, depth, stack, ret, result,
                   timedOut, usedRandom, gameCalls, historyVars>>

InitGames ==
    /\ game \in Games(ShapeC, 2, {0, 1}, FALSE)
    /\ cfg \in Configs({"maxn", "paranoid"}, {TRUE}, {1, 2})
    /\ FreshAgent
    /\ NoCall

\* At most MaxCalls get_move calls are made between two resets.
GetMoveAgain == move_count < MaxCalls /\ GetMove

NextGames ==
    \/ GetMoveAgain
    \/ DepthSearchTerminal
    \/ DepthSearchHorizon
    \/ DepthSearchExpand
    \/ DepthSearchNext
    \/ DepthSearchReturn
    \/ GetMoveComplete
    \/ GetMoveDeepen
    \/ NextLate
    \/ GetMoveReturned
    \/ Reset

SpecGames == InitGames /\ [][NextGames]_vars

(***************************************************************************)
(* Agents without a usable table: the game's positions have no hash_value  *)
(* (as Tree itself has none), or the agent was built with t_enable=False.  *)
(***************************************************************************)
Unhashed(g) == [g EXCEPT !.hashed = FALSE]
TableOff(c) == [c EXCEPT !.t_enable = FALSE]

InitPlain ==
    /\ \E g \in Games(ShapeC, 2, {0, 1}, FALSE),
          c \in Configs({"maxn", "paranoid"}, {TRUE}, {MaxCap}) :
          \/ game = Unhashed(g) /\ cfg = c
          \/ game = Unhashed(g) /\ cfg = TableOff(c)
          \/ game = g /\ cfg = TableOff(c)
    /\ FreshAgent
    /\ NoCall

SpecPlain == InitPlain /\ [][NextGames]_vars

(***************************************************************************)
(* The transposition table on its own: any sequence of update_ttable and   *)
(* access_ttable calls on one agent, on positions with hashes 1..NumHashes.*)
(***************************************************************************)
Position(h) == [hashed |-> TRUE, hash_value |-> h,
                upper_sum |-> game.upper_sum, players |-> game.players]
TableScores == {FixedScore(2), [i \in 1..2 |-> IF i = 2 THEN MaxSum ELSE 0]}

tableFrame == <<agentConfig, complete, root_turn, depth_sum, move_count, pc, saved_move,
                depth, stack, ret, result, timedOut, selected, iters, usedRandom,
                gameCalls, rootScore, first, looked, ck, applied, horizon, match>>

UpdateTtable ==
    /\ pc = "idle"
    /\ Len(touched) < MaxOps
    /\ \E h \in 1..NumHashes, s \in TableScores :
          /\ ttable' = update_ttable(ttable, Position(h), s)
          /\ touched' = Append(touched, [h |-> h, op |-> "insert"])
    /\ UNCHANGED tableFrame

AccessTtable ==
    /\ pc = "idle"
    /\ Len(touched) < MaxOps
    /\ \E h \in 1..NumHashes, t \in 0..1 :
          /\ ttable' = access_ttable(ttable, Position(h), t).tt
          /\ touched' = IF h \in Keys(ttable)
                        THEN Append(touched, [h |-> h, op |-> "hit"])
                        ELSE touched
    /\ UNCHANGED tableFrame

InitTable ==
    /\ game = Game(ShapeC, 2, 0, <<>>)
    /\ cfg \in Configs({"maxn"}, {TRUE}, 1..MaxCap)
    /\ FreshAgent
    /\ NoCall

NextTable == UpdateTtable \/ AccessTtable

SpecTable == InitTable /\ [][NextTable]_vars

(***************************************************************************)
(* Lookups and what they return: update_ttable with any score of a         *)
(* two-player game, and access_ttable calls whose arguments and returned   *)
(* value are recorded in looked.                                           *)
(***************************************************************************)
lookupFrame == <<agentConfig, complete, root_turn, depth_sum, move_count, pc, saved_move,
                 depth, stack, ret, result, timedOut, selected, iters, usedRandom,
                 gameCalls, rootScore, first, touched, ck, applied, horizon, match>>

UpdateTtableCall ==
    /\ pc = "idle"
    /\ \E h \in 1..NumHashes, s \in ScoreTuples(2) :
          ttable' = update_ttable(ttable, Position(h), s)
    /\ UNCHANGED <<lookupFrame, looked, ck, applied, horizon, match>>

AccessTtableCall ==
    /\ pc = "idle"
    /\ \E h \in 1..NumHashes, t \in 0..1 :
          LET a == access_ttable(ttable, Position(h), t)
          IN  /\ ttable' = a.tt
              /\ looked' = [h |-> h, turn |-> t, value |-> a.key,
                            at |-> IF h \in Keys(ttable) THEN IndexOf(ttable, h) ELSE 0]
    /\ UNCHANGED lookupFrame

NextLookup == UpdateTtableCall \/ AccessTtableCall

SpecLookup == InitTable /\ [][NextLookup]_vars

(***************************************************************************)
(* Checkers: pyplayergames.games.checkers.game.Gamestate.                  *)
(* Python objects are kept by reference: ck.states holds the Gamestate     *)
(* instances, ck.boards the numpy arrays and ck.dicts the hash_count       *)
(* dictionaries they point to, each addressed by its index.                *)
(***************************************************************************)
\* Gamestate._SQUARES: the dark squares, (row, column).
SQUARES == {sq \in (0..7) \X (0..7) : (sq[1] + sq[2]) % 2 = 1}
PIECES == {-2, -1, 1, 2}
\* Gamestate._TEAM_PIECES[turn]
TEAM_PIECES(t) == IF t = 0 THEN {1, 2} ELSE {-1, -2}
\* Gamestate._PIECE_DIRS[piece]
PIECE_DIRS(piece) ==
    CASE piece = 1  -> {<<1, -1>>, <<1, 1>>}
      [] piece = -1 -> {<<-1, -1>>, <<-1, 1>>}
      [] OTHER      -> {<<-1, -1>>, <<-1, 1>>, <<1, -1>>, <<1, 1>>}

coord_sum(square, d) == <<square[1] + d[1], square[2] + d[2]>>
\* A negative index is skipped by the explicit test, an index above 7 by the
\* IndexError numpy raises.
Indexable(square) == square[1] \in 0..7 /\ square[2] \in 0..7

\* Move(start, d, capt)
Move(start, d, capt) == [start |-> start, d |-> d, capt |-> capt]

\* Gamestate.piece_moves on board b with player t to move.
piece_moves(b, t, square) ==
    LET piece == b[square]
        dirs  == IF piece \in TEAM_PIECES(t) THEN PIECE_DIRS(piece) ELSE {}
        Step(d) == coord_sum(square, d)
        Land(d) == coord_sum(Step(d), d)
    IN  [moves |-> {Move(square, d, FALSE) : d \in
                      {e \in dirs : Indexable(Step(e)) /\ b[Step(e)] = 0}},
         capts |-> {Move(square, d, TRUE) : d \in
                      {e \in dirs : /\ Indexable(Step(e)) /\ b[Step(e)] # 0
                                    /\ Indexable(Land(e)) /\ b[Land(e)] = 0
                                    /\ b[Step(e)] \notin TEAM_PIECES(t)}}]

\* Gamestate.get_moves of the instance g: the moves a continued jump left in
\* _valid_moves, else every capture, else every simple move.
get_moves(w, g) ==
    IF g.valid_moves # {} THEN g.valid_moves
    ELSE LET b     == w.boards[g.board]
             moves == UNION {piece_moves(b, g.turn, sq).moves : sq \in SQUARES}
             capts == UNION {piece_moves(b, g.turn, sq).capts : sq \in SQUARES}
         IN  IF capts = {} THEN moves ELSE capts

RECURSIVE Xor(_, _)
\* Python's int ^ int on non-negative integers.
Xor(a, b) ==
    IF a = 0 THEN b
    ELSE IF b = 0 THEN a
    ELSE ((a + b) % 2) + 2 * Xor(a \div 2, b \div 2)

\* Gamestate._hash_update on the pair u = [b: board, h: hash value].
hash_update(u, key, square) ==
    IF u.b[square] # 0 THEN [u EXCEPT !.h = Xor(u.h, key[square][u.b[square]])]
    ELSE u

\* _update_board that hashes the square only before the piece is changed.
update_board_half(u, key, square, piece) ==
    LET out == hash_update(u, key, square)
    IN  [out EXCEPT !.b[square] = piece]

\* Gamestate._update_board
update_board(u, key, square, piece) ==
    LET out == hash_update(u, key, square)
        put == [out EXCEPT !.b[square] = piece]
    IN  hash_update(put, key, square)

RECURSIVE HashSquares(_, _, _)
HashSquares(u, key, todo) ==
    IF todo = {} THEN u
    ELSE LET sq == CHOOSE x \in todo : TRUE
         IN  HashSquares(hash_update(u, key, sq), key, todo \ {sq})
\* Gamestate._hash_board
hash_board(b, key) == HashSquares([b |-> b, h |-> 0], key, SQUARES).h

\* A reference to the array itself instead of a copy of it.
np_alias(boards, b) == [boards |-> boards, id |-> b]
\* np.copy(parent.board): a new array with the same contents.
np_copy(boards, b) == [boards |-> Append(boards, boards[b]), id |-> Len(boards) + 1]

NoMove == [start |-> <<0, 0>>, d |-> <<0, 0>>, capt |-> FALSE]

\* Gamestate(board=b, turn=mover, plys_to_draw=plys): the first state of a game,
\* hashed from scratch with the key of this game.
NewGame(b, mover, plys, key) ==
    LET h == hash_board(b, key)
    IN  [states |-> <<[board |-> 1, turn |-> mover, plys_to_draw |-> plys,
                       hash_value |-> h, valid_moves |-> {}, hash_count |-> 1]>>,
         boards |-> <<b>>,
         dicts  |-> << <<[h |-> h, t |-> mover, s |-> 1]>> >>,
         key    |-> key,
         log    |-> <<[parent |-> 0, move |-> NoMove, kind |-> "root"]>>]

\* Gamestate(parent=w.states[p], move=move), the whole constructor: the heap
\* after it, with the new instance last in w.states.
Gamestate(w, p, move) ==
    LET parent   == w.states[p]
        id       == Len(w.states) + 1
        cp       == np_copy(w.boards, parent.board)
        u0       == [b |-> cp.boards[cp.id], h |-> parent.hash_value]
        piece    == u0.b[move.start]
        square_1 == coord_sum(move.start, move.d)
        square_2 == coord_sum(square_1, move.d)
        target   == IF move.capt THEN square_2 ELSE square_1
        crowned  == piece \in {1, -1} /\ target[1] \in {0, 7}
        u1       == update_board(u0, w.key, move.start, 0)
        u2       == IF move.capt THEN update_board(u1, w.key, square_1, 0) ELSE u1
        u3       == update_board(u2, w.key, target, IF crowned THEN 2 * piece ELSE piece)
        more     == IF move.capt /\ ~crowned
                    THEN piece_moves(u3.b, parent.turn, square_2).capts
                    ELSE {}
        next     == IF move.capt /\ more # {} THEN parent.turn ELSE 1 - parent.turn
        fresh    == move.capt \/ piece \in {1, -1}
        entry    == [h |-> u3.h, t |-> next, s |-> id]
        new      == [board        |-> cp.id,
                     turn         |-> next,
                     plys_to_draw |-> IF fresh THEN 0 ELSE parent.plys_to_draw + 1,
                     hash_value   |-> u3.h,
                     valid_moves  |-> more,
                     hash_count   |-> IF fresh THEN Len(w.dicts) + 1 ELSE parent.hash_count]
        kind     == IF crowned THEN "crown"
                    ELSE IF more # {} THEN "jump"
                    ELSE IF move.capt THEN "capture"
                    ELSE "move"
    IN  [states |-> Append(w.states, new),
         boards |-> [cp.boards EXCEPT ![cp.id] = u3.b],
         dicts  |-> IF fresh THEN Append(w.dicts, <<entry>>)
                    ELSE [w.dicts EXCEPT ![parent.hash_count] = Append(@, entry)],
         key    |-> w.key,
         log    |-> Append(w.log, [parent |-> p, move |-> move, kind |-> kind])]

\* An 8x8 array that is empty except for the given (square, piece) pairs.
Board(pieces) ==
    [sq \in (0..7) \X (0..7) |->
        IF \E pc0 \in pieces : pc0[1] = sq
        THEN (CHOOSE pc0 \in pieces : pc0[1] = sq)[2]
        ELSE 0]

\* Positions a game is started from: a double jump, a promotion by a simple
\* move, a capture that promotes, two kings, and a king with a double jump.
StartBoards ==
    { Board({<< <<2, 1>>, 1 >>, << <<3, 2>>, -1 >>, << <<5, 4>>, -1 >>}),
      Board({<< <<6, 1>>, 1 >>, << <<1, 2>>, -1 >>}),
      Board({<< <<5, 2>>, 1 >>, << <<6, 3>>, -1 >>}),
      Board({<< <<3, 2>>, 2 >>, << <<4, 5>>, -2 >>}),
      Board({<< <<2, 1>>, 2 >>, << <<3, 2>>, -1 >>, << <<5, 4>>, -1 >>}) }

PieceIndex(piece) == IF piece < 0 THEN piece + 2 ELSE piece + 1
\* hash_key as random.getrandbits(_hash_length) may fill it: one table per seed.
HashKey(seed) ==
    [sq \in SQUARES |->
        [piece \in PIECES |->
            ((2 * seed + 1) * (4 * (8 * sq[1] + sq[2]) + PieceIndex(piece)) + seed)
                % (2 ^ hash_length)]]
KeySeeds == {1, 2}

\* gamestate.get_next(move) on any Gamestate already made, for any move its
\* get_moves offers.
GamestateGetNext ==
    /\ ck # NoCheckers
    /\ Len(ck.states) < MaxStates
    /\ \E p \in 1..Len(ck.states) :
          \E move \in get_moves(ck, ck.states[p]) :
              ck' = Gamestate(ck, p, move)
    /\ UNCHANGED <<game, cfg, ttable, complete, root_turn, depth_sum, move_count, pc,
                   saved_move, depth, stack, ret, result, timedOut, selected, iters,
                   usedRandom, gameCalls, rootScore, first, touched, looked, applied, horizon, match>>

InitCheckers ==
    /\ game = Game(ShapeLeaf, 2, 0, <<>>)
    /\ cfg \in Configs({"maxn"}, {TRUE}, {MaxCap})
    /\ FreshAgent
    /\ pc = "idle"
    /\ saved_move = 0
    /\ depth = 0
    /\ stack = <<>>
    /\ ret = NoRet
    /\ result = 0
    /\ timedOut = FALSE
    /\ selected = <<>>
    /\ iters = <<>>
    /\ usedRandom = FALSE
    /\ gameCalls = 0
    /\ rootScore = NoScore
    /\ first = [done |-> FALSE, move |-> 0, score |-> NoScore, random |-> FALSE]
    /\ touched = <<>>
    /\ looked = NoLookup
    /\ applied = NoApplied
    /\ horizon = FALSE
    /\ match = NoMatch
    /\ \E b \in StartBoards, mover \in 0..1, plys \in 0..1, seed \in KeySeeds :
          ck = NewGame(b, mover, plys, HashKey(seed))

NextCheckers == GamestateGetNext

SpecCheckers == InitCheckers /\ [][NextCheckers]_vars

\* What winner returns while the game goes on: None.
NoWinner == 2

\* hash_count[hash_value][turn] of instance g: the instances filed under its
\* hash and mover, in the order they were appended.
match_list(w, g) ==
    SelectSeq(w.dicts[g.hash_count], LAMBDA e : e.h = g.hash_value /\ e.t = g.turn)

\* Gamestate.winner of instance i, computed on the objects as they are now.
winner(w, i) ==
    LET g    == w.states[i]
        list == match_list(w, g)
        matches == Cardinality({k \in 1..(Len(list) - 1) :
                       w.boards[w.states[list[k].s].board] = w.boards[g.board]})
    IN  IF get_moves(w, g) = {} THEN 1 - g.turn
        ELSE IF g.plys_to_draw >= 80 THEN -1
        ELSE IF Len(list) >= 3 /\ matches >= 2 THEN -1
        ELSE NoWinner

\* get_next called again with a move it was called with before on the same
\* instance, as a search does when it expands a position a second time.
GamestateGetNextRepeated ==
    /\ ck # NoCheckers
    /\ Len(ck.states) < MaxStates + 1
    /\ \E j \in 2..Len(ck.states) :
          ck' = Gamestate(ck, ck.log[j].parent, ck.log[j].move)
    /\ UNCHANGED <<game, cfg, ttable, complete, root_turn, depth_sum, move_count, pc,
                   saved_move, depth, stack, ret, result, timedOut, selected, iters,
                   usedRandom, gameCalls, rootScore, first, touched, looked, applied, horizon, match>>

\* A game of two kings, either player to move.
InitDraw ==
    /\ InitCheckers
    /\ ck.boards[1] = Board({<< <<3, 2>>, 2 >>, << <<4, 5>>, -2 >>})
    /\ ck.states[1].plys_to_draw = 0

NextDraw == GamestateGetNext \/ GamestateGetNextRepeated

SpecDraw == InitDraw /\ [][NextDraw]_vars

(***************************************************************************)
(* Match.run playing one game of checkers: the loop of _run_game in the    *)
(* match process, the loop of _get_agent_moves in the agent process, the   *)
(* two directions of the pipe between them and the buttons of the GUI.     *)
(* A Gamestate is written as the game it belongs to and the plys played in *)
(* it; a game is over after MaxPlys plys.                                  *)
(***************************************************************************)
MaxPlys == 3        \* plys after which a game of the match is over
MaxRestarts == 2    \* presses of the restart button the model follows

MatchState(n, p) == [game_no |-> n, plys |-> p]

MatchOver(gs) == gs.plys >= MaxPlys

\* No request is being served by the agent process.
NoData == [busy |-> FALSE]

ToAgent(gs, reset) == [gamestate |-> gs, reset |-> reset]

\* source is history: the gamestate the reply was computed from.
ToMatch(gs, manual, source) == [gamestate |-> gs, manual |-> manual, source |-> source]

\* Match._new_game: a fresh Gamestate, sent to the agent process with
\* reset=True, and GUI.reset.
new_game(m) ==
    [m EXCEPT !.games = @ + 1,
              !.gamestate = MatchState(m.games + 1, 0),
              !.to_agent = Append(@, ToAgent(MatchState(m.games + 1, 0), TRUE)),
              !.restart_game_flag = FALSE,
              !.pause_flag = FALSE]

\* The branch of _run_game taken when the pipe has data.
Receive(m) ==
    LET data == Head(m.to_match)
        rest == [m EXCEPT !.to_match = Tail(@)]
    IN  IF m.ignore THEN [rest EXCEPT !.ignore = FALSE]
        ELSE IF data.manual THEN [rest EXCEPT !.manual = TRUE]
        ELSE [rest EXCEPT !.gamestate = data.gamestate,
                          !.to_agent = Append(@, ToAgent(data.gamestate, FALSE)),
                          !.last = [any |-> TRUE, source |-> data.source,
                                    current |-> m.gamestate]]

\* The branch of _run_game taken when a manual move has been put in.
ManualMove(m) ==
    LET next == MatchState(m.gamestate.game_no, m.gamestate.plys + 1)
    IN  [m EXCEPT !.manual = FALSE,
                  !.gamestate = next,
                  !.to_agent = Append(@, ToAgent(next, FALSE))]

\* The agent process and the match process leave the heap of the other
\* models alone.
MatchFrame ==
    UNCHANGED <<game, cfg, ttable, complete, root_turn, depth_sum, move_count, pc,
                saved_move, depth, stack, ret, result, timedOut, selected, iters,
                usedRandom, gameCalls, rootScore, first, touched, looked, ck,
                applied, horizon>>

Looping == match.running /\ match.returned = "no" /\ ~MatchOver(match.gamestate)

\* The game is over: _run_game returns the reward.
RunGameReturn ==
    /\ match.running /\ match.returned = "no" /\ MatchOver(match.gamestate)
    /\ match' = [match EXCEPT !.returned = "reward"]
    /\ MatchFrame

\* An iteration that finds the window closed.
RunGameTerminated ==
    /\ Looping /\ match.terminated_flag
    /\ match' = [match EXCEPT !.returned = "None"]
    /\ MatchFrame

\* An iteration that finds the restart flag: the new game, then (neither
\* paused nor manual after the reset) the pipe is polled.
RunGameRestart ==
    /\ Looping /\ ~match.terminated_flag /\ match.restart_game_flag
    /\ LET m == new_game([match EXCEPT !.ignore = ~match.manual, !.manual = FALSE])
       IN  match' = IF m.to_match # <<>> THEN Receive(m) ELSE m
    /\ MatchFrame

\* An iteration on a manual turn in which the user has put in a move.
RunGameManualMove ==
    /\ Looping /\ ~match.terminated_flag /\ ~match.restart_game_flag
    /\ ~match.pause_flag /\ match.manual
    /\ match' = ManualMove(match)
    /\ MatchFrame

\* An iteration that finds data in the pipe.
RunGameAgentReply ==
    /\ Looping /\ ~match.terminated_flag /\ ~match.restart_game_flag
    /\ ~match.pause_flag /\ ~match.manual
    /\ match.to_match # <<>>
    /\ match' = Receive(match)
    /\ MatchFrame

\* GUI._restart_game, GUI._play_pause and the closing of the window, run by
\* window.update() between two iterations.
PressRestart ==
    /\ Looping /\ ~match.restart_game_flag
    /\ match.games <= MaxRestarts
    /\ match' = [match EXCEPT !.restart_game_flag = TRUE]
    /\ MatchFrame

PressPause ==
    /\ Looping
    /\ match' = [match EXCEPT !.pause_flag = ~@]
    /\ MatchFrame

CloseWindow ==
    /\ Looping /\ ~match.terminated_flag
    /\ match' = [match EXCEPT !.terminated_flag = TRUE]
    /\ MatchFrame

\* _get_agent_moves receives a request: nothing for a game that is over, the
\* gamestate back with manual=True when the player to move has no agent,
\* otherwise get_move starts.
AgentRecv ==
    /\ match.running /\ match.agent_data = NoData /\ match.to_agent # <<>>
    /\ LET data == Head(match.to_agent)
           gs   == data.gamestate
           rest == [match EXCEPT !.to_agent = Tail(@)]
       IN  match' =
             IF MatchOver(gs) THEN rest
             ELSE IF ~match.agents[(gs.plys % 2) + 1]
                  THEN [rest EXCEPT !.to_match = Append(@, ToMatch(gs, TRUE, gs))]
                  ELSE [rest EXCEPT !.agent_data = [busy |-> TRUE, gamestate |-> gs]]
    /\ MatchFrame

\* get_move has returned: the next gamestate is sent to the match.
AgentSend ==
    /\ match.running /\ match.agent_data # NoData
    /\ LET gs == match.agent_data.gamestate
       IN  match' = [match EXCEPT
                        !.agent_data = NoData,
                        !.to_match = Append(@, ToMatch(MatchState(gs.game_no, gs.plys + 1),
                                                       FALSE, gs))]
    /\ MatchFrame

\* run has started the agent process and called _new_game for the first game;
\* each side is played by an agent or by hand.
InitMatch ==
    /\ game = Game(ShapeLeaf, 2, 0, <<>>)
    /\ cfg \in Configs({"maxn"}, {TRUE}, {MaxCap})
    /\ FreshAgent
    /\ pc = "idle"
    /\ saved_move = 0
    /\ depth = 0
    /\ stack = <<>>
    /\ ret = NoRet
    /\ result = 0
    /\ timedOut = FALSE
    /\ selected = <<>>
    /\ iters = <<>>
    /\ usedRandom = FALSE
    /\ gameCalls = 0
    /\ rootScore = NoScore
    /\ first = [done |-> FALSE, move |-> 0, score |-> NoScore, random |-> FALSE]
    /\ touched = <<>>
    /\ looked = NoLookup
    /\ ck = NoCheckers
    /\ applied = NoApplied
    /\ horizon = FALSE
    /\ \E black, red \in BOOLEAN :
          match = new_game([running |-> TRUE, agents |-> <<black, red>>, games |-> 0,
                            gamestate |-> MatchState(0, 0), manual |-> FALSE,
                            ignore |-> FALSE, restart_game_flag |-> FALSE,
                            pause_flag |-> FALSE, terminated_flag |-> FALSE,
                            to_agent |-> <<>>, to_match |-> <<>>, agent_data |-> NoData,
                            returned |-> "no",
                            last |-> [any |-> FALSE, source |-> MatchState(0, 0),
                                      current |-> MatchState(0, 0)]])

NextMatch ==
    \/ RunGameReturn \/ RunGameTerminated \/ RunGameRestart
    \/ RunGameManualMove \/ RunGameAgentReply
    \/ PressRestart \/ PressPause \/ CloseWindow
    \/ AgentRecv \/ AgentSend

SpecMatch == InitMatch /\ [][NextMatch]_vars

(***************************************************************************)
(* ParanoidAgent._is_better and ParanoidAgent.prune called directly on an  *)
(* agent that has searched, so that self._turn is the root player of its   *)
(* last get_move. Games of two and of three players, any player to move    *)
(* at the root.                                                            *)
(***************************************************************************)
\* The values alpha and beta take: the root player's scores and the infinities.
Bounds == {-Inf} \cup (0..MaxSum) \cup {Inf}

IsBetterCall ==
    /\ pc = "idle"
    /\ move_count > 0
    /\ \E new \in ScoreTuples(game.players), old \in ScoreTuples(game.players),
          t \in 0..(game.players - 1), coin \in BOOLEAN :
          applied' = [fn |-> "is_better", root |-> root_turn, mover |-> t,
                      new |-> new, old |-> old, alpha |-> 0, beta |-> 0,
                      pruning |-> cfg.pruning,
                      out |-> paranoid_is_better(new, old, t, coin)]
    /\ UNCHANGED <<game, cfg, ttable, complete, root_turn, depth_sum, move_count, pc,
                   saved_move, depth, stack, ret, result, timedOut, selected, iters,
                   usedRandom, gameCalls, rootScore, first, touched, looked, ck, horizon, match>>

PruneCall ==
    /\ pc = "idle"
    /\ move_count > 0
    /\ \E n \in {v \in Nodes : game.kids[v] # <<>>}, best \in ScoreTuples(game.players),
          alpha \in Bounds, beta \in Bounds :
          applied' = [fn |-> "prune", root |-> root_turn, mover |-> turn(n),
                      new |-> best, old |-> <<>>, alpha |-> alpha, beta |-> beta,
                      pruning |-> cfg.pruning,
                      out |-> paranoid_prune(n, best,
                                  [tag |-> "ab", bound |-> 0, alpha |-> alpha, beta |-> beta])]
    /\ UNCHANGED <<game, cfg, ttable, complete, root_turn, depth_sum, move_count, pc,
                   saved_move, depth, stack, ret, result, timedOut, selected, iters,
                   usedRandom, gameCalls, rootScore, first, touched, looked, ck, horizon, match>>

InitParanoid ==
    /\ game \in {Game(ShapeD, p, t0, <<>>) : p \in 2..3, t0 \in 0..2} 
    /\ game.turn[Root] < game.players
    /\ cfg \in [kind : {"paranoid"}, pruning : BOOLEAN, t_enable : {TRUE}, t_cap : {MaxCap}]
    /\ FreshAgent
    /\ NoCall

\* One get_move with ample time, then the direct calls.
GetMoveOnce == move_count = 0 /\ GetMove

NextParanoid ==
    \/ GetMoveOnce
    \/ DepthSearchTerminal
    \/ DepthSearchHorizon
    \/ DepthSearchExpand
    \/ DepthSearchNext
    \/ DepthSearchReturn
    \/ GetMoveComplete
    \/ GetMoveDeepen
    \/ GetMoveReturned
    \/ IsBetterCall
    \/ PruneCall

SpecParanoid == InitParanoid /\ [][NextParanoid]_vars

(***************************************************************************)
(* ParanoidAgent with pruning and ample time on trees deep enough for a    *)
(* window to be narrowed twice, with two and with three players.           *)
(***************************************************************************)
InitWindow ==
    /\ game \in Games(ShapeE, 3, {0}, FALSE) \cup Games(ShapeB, 2, {0, 1}, FALSE)
    /\ cfg \in Configs({"paranoid"}, {TRUE}, {MaxCap})
    /\ FreshAgent
    /\ NoCall

SpecWindow == InitWindow /\ [][NextAmple]_vars

(***************************************************************************)
(* MaxnAgent with and without pruning, ample time, two and three players.  *)
(***************************************************************************)
InitBound ==
    /\ game \in Games(ShapeC, 3, {0, 1, 2}, FALSE) \cup Games(ShapeB, 2, {0, 1}, FALSE)
    /\ cfg \in Configs({"maxn"}, {TRUE, FALSE}, {MaxCap})
    /\ FreshAgent
    /\ NoCall

SpecBound == InitBound /\ [][NextAmple]_vars

(***************************************************************************)
(* One get_move call that keeps running: trees of height 2 and 3, every    *)
(* agent class, pruning on or off; the clock may pass the deadline at any  *)
(* depth_search entry. A call that can take a step takes one.              *)
(***************************************************************************)
InitClock ==
    /\ game \in Games(ShapeC, 2, {0}, FALSE) \cup {Game(ShapeB, 2, 0, <<>>)}
    /\ cfg \in Configs({"iddfs", "maxn", "paranoid"}, BOOLEAN, {MaxCap})
    /\ FreshAgent
    /\ NoCall

SpecClock == InitClock /\ [][Next]_vars /\ WF_vars(Next)

(***************************************************************************)
(* Two get_move calls with ample time on a tree whose inner vertices are   *)
(* later children, under a table large enough to keep every inner vertex:  *)
(* the second call orders moves by what the first one cached.              *)
(***************************************************************************)
InitOrder ==
    /\ game \in Games(ShapeE, 2, {0, 1}, FALSE)
    /\ cfg \in Configs({"maxn", "paranoid"}, {FALSE}, {MaxCap + 1})
    /\ FreshAgent
    /\ NoCall

NextOrder ==
    \/ GetMoveAgain
    \/ DepthSearchTerminal
    \/ DepthSearchHorizon
    \/ DepthSearchExpand
    \/ DepthSearchNext
    \/ DepthSearchReturn
    \/ GetMoveComplete
    \/ GetMoveDeepen
    \/ GetMoveReturned

SpecOrder == InitOrder /\ [][NextOrder]_vars

(***************************************************************************)
(* Claims about one get_move call under a deadline (Spec).                 *)
(***************************************************************************)
Last(q) == q[Len(q)]
Done == pc = "done"
\* The deadline has been seen and get_move has not returned yet.
Late == timedOut /\ pc = "search"

\* C1: whatever the agent class and whenever the deadline passes, the move
\* get_move returns is one of the root position's legal moves.
C1_ReturnsLegalMove == Done => result \in valid_moves(Root)

\* C1 witness: the deadline passed before the depth-1 iteration finished.
C1_Witness == Done /\ timedOut /\ depth = 1 /\ result \in valid_moves(Root)

\* C2: when the deadline is seen during the depth-d iteration, get_move returns
\* the move chosen at the end of iteration d-1 (for d = 1 the initial random
\* move): selected holds the initial move and then one move per finished
\* iteration, so that move is selected[d] and it is the last one recorded.
C2_TimeoutReturnsLastCompleted ==
    (Done /\ timedOut) => /\ Len(selected) = depth
                          /\ result = selected[depth]

\* C2 witness: the deadline passed during iteration 2 and the move kept from
\* iteration 1 differs from the initial random move.
C2_Witness ==
    /\ Done /\ timedOut /\ depth = 2
    /\ result = selected[2]
    /\ selected[2] # selected[1]

\* C3: depths are searched in the order 1, 2, 3, ...; an iteration that ends
\* without expiry returns its own move when the complete flag is true and
\* starts the next depth when it is false.
C3_IterationEnds ==
    (pc = "search" /\ stack = <<>> /\ ret.tag = "ok") =>
        IF complete
        THEN /\ pc' = "done"
             /\ result' = Last(ret.pv)
             /\ iters' = iters
             /\ stack' = <<>>
        ELSE /\ pc' = "search"
             /\ iters' = Append(iters, depth + 1)
             /\ Len(stack') = 1
             /\ stack'[1].node = Root /\ stack'[1].depth = depth + 1
             /\ stack'[1].st = "call"
C3_DepthOrder ==
    /\ [](\A i \in 1..Len(iters) : iters[i] = i)
    /\ [](pc = "search" => Len(iters) = depth)
    /\ [][C3_IterationEnds]_vars

\* C3 witness: a call that went through depths 1, 2, 3 and returned at 3.
C3_Witness == Done /\ ~timedOut /\ iters = <<1, 2, 3>> /\ complete

\* C8: once a depth_search call has seen the deadline passed, every step until
\* get_move returns pops one frame with the expired result, leaves the other
\* frames (their principal variations included) and the table as they are and
\* starts no child search.
C8_UnwindStep ==
    Late => /\ ttable' = ttable
            /\ \/ stack # <<>> /\ stack' = Pop /\ ret' = Expired
               \/ stack = <<>> /\ pc' = "done" /\ stack' = <<>>
C8_ExpiryUnwindsClean == [][C8_UnwindStep]_vars

\* C8 witness: the deadline was seen below a frame that had already taken a
\* child's result, with entries written before the expiry in the table.
C8_Witness ==
    /\ Late /\ stack # <<>> /\ ret = Expired
    /\ Top.best_score # NoScore
    /\ ttable # <<>>

\* C9: after a depth_search call has returned the expired result, no
\* game-contract call (get_next, valid_moves, is_game_over, score) is made until
\* get_move returns.
C9_NoGameCallStep == Late => gameCalls' = gameCalls
C9_NoGameCallsAfterExpiry == [][C9_NoGameCallStep]_vars

\* C9 witness: get_move returned after an expiry seen three frames deep.
C9_Witness == Late /\ Len(stack) = 2 /\ ret = Expired /\ gameCalls > 1

(***************************************************************************)
(* Claims about the move found with enough time (SpecAmple, SpecPair).     *)
(***************************************************************************)
InnerOrRoot == {n \in Nodes : InTree(game.kids, n) /\ ~is_game_over(n)}
Children(n) == {get_next(n, m) : m \in valid_moves(n)}

RECURSIVE MaxnValue(_)
\* The max^n backed-up score: a position takes the child score that is largest
\* in the component of the player to move there.
MaxnValue(n) ==
    IF is_game_over(n) THEN score(n)
    ELSE LET vals == {MaxnValue(c) : c \in Children(n)}
         IN  CHOOSE v \in vals : \A w \in vals : v[turn(n) + 1] >= w[turn(n) + 1]

\* No position has two children that tie on its mover's own component.
MaxnTieFree ==
    \A n \in InnerOrRoot : \A c, d \in Children(n) :
        c # d => MaxnValue(c)[turn(n) + 1] # MaxnValue(d)[turn(n) + 1]

MaxnBestMoves ==
    {m \in valid_moves(Root) : \A k \in valid_moves(Root) :
        MaxnValue(get_next(Root, m))[turn(Root) + 1]
            >= MaxnValue(get_next(Root, k))[turn(Root) + 1]}

\* C4: without pruning, with enough time and no ties on a mover's own
\* component, MaxnAgent returns the root move with the largest max^n value in
\* the root player's component.
C4_MaxnFindsBestMove ==
    (Done /\ cfg.kind = "maxn" /\ ~cfg.pruning /\ MaxnTieFree) =>
        result \in MaxnBestMoves

\* C4 witness: a three-player tree without ties whose search ran to depth 2
\* and whose answer is not the first move.
C4_Witness ==
    /\ Done /\ cfg.kind = "maxn" /\ ~cfg.pruning /\ MaxnTieFree
    /\ game.players = 3 /\ depth = 2
    /\ result = 2 /\ MaxnBestMoves = {2}

RECURSIVE ParanoidValue(_)
\* The paranoid value: the root player's component, maximised where the root
\* player moves and minimised where anyone else moves.
ParanoidValue(n) ==
    IF is_game_over(n) THEN score(n)[turn(Root) + 1]
    ELSE LET vals == {ParanoidValue(c) : c \in Children(n)}
         IN  IF turn(n) = turn(Root)
             THEN CHOOSE v \in vals : \A w \in vals : v >= w
             ELSE CHOOSE v \in vals : \A w \in vals : v <= w

ParanoidBestMoves ==
    {m \in valid_moves(Root) : \A k \in valid_moves(Root) :
        ParanoidValue(get_next(Root, m)) >= ParanoidValue(get_next(Root, k))}

\* No position has two children that tie on the paranoid value.
ParanoidTieFree ==
    \A n \in InnerOrRoot : \A c, d \in Children(n) :
        c # d => ParanoidValue(c) # ParanoidValue(d)

\* C5: without pruning and with enough time, ParanoidAgent returns the root
\* move that maximises the paranoid value, for any number of players and any
\* root player, when no two sibling positions tie on it.
C5_ParanoidFindsBestMove ==
    (Done /\ cfg.kind = "paranoid" /\ ~cfg.pruning /\ ParanoidTieFree) =>
        result \in ParanoidBestMoves

\* C6: on the same tree MaxnAgent with shallow pruning returns the move
\* MaxnAgent without pruning returns. Stated for trees on which the unpruned
\* search drew no random tie-break, so that the move it found is the only move
\* it can return.
C6_ShallowPruningSameMove ==
    (Done /\ first.done /\ cfg.kind = "maxn" /\ ~first.random) =>
        result = first.move

\* C7: on the same tree ParanoidAgent with alpha-beta pruning finds the root
\* value (root player's component) that ParanoidAgent without pruning finds.
C7_AlphaBetaSameValue ==
    (Done /\ first.done /\ cfg.kind = "paranoid") =>
        rootScore[root_turn + 1] = first.score[root_turn + 1]

(***************************************************************************)
(* Claims about the transposition table (SpecTable).                       *)
(***************************************************************************)
TouchedHashes == {touched[i].h : i \in 1..Len(touched)}
LastTouch(h) == CHOOSE i \in 1..Len(touched) :
                   /\ touched[i].h = h
                   /\ \A j \in (i + 1)..Len(touched) : touched[j].h # h
\* The hashes touched after the last touch of h.
TouchedSince(h) == {touched[j].h : j \in (LastTouch(h) + 1)..Len(touched)}
\* The t_cap most recently touched distinct hashes.
MostRecent == {h \in TouchedHashes : Cardinality(TouchedSince(h)) < cfg.t_cap}

C10_TableIsLRU ==
    /\ Len(ttable) <= cfg.t_cap
    /\ Cardinality(Keys(ttable)) = Len(ttable)
    /\ Keys(ttable) = MostRecent
    /\ Len(ttable) = Min(cfg.t_cap, Cardinality(TouchedHashes))
    /\ \A i, j \in 1..Len(ttable) :
          i < j => LastTouch(ttable[i].h) < LastTouch(ttable[j].h)
C10_EvictsAtMostOne == Cardinality(Keys(ttable) \ Keys(ttable')) <= 1

\* C10: after any sequence of inserts and lookups the table holds at most
\* t_cap entries, exactly the most recently touched distinct hashes (least
\* recent first); with more than t_cap distinct hashes touched it holds
\* exactly t_cap, and no step drops more than one entry.
C10_LRUTable == []C10_TableIsLRU /\ [][C10_EvictsAtMostOne]_vars

\* C10 witness: three distinct hashes went into a table of capacity 2, a
\* lookup hit happened on the way, and the hash inserted first was evicted.
C10_Witness ==
    /\ cfg.t_cap = 2 /\ Len(ttable) = 2
    /\ Cardinality(TouchedHashes) = 3
    /\ \E i \in 1..Len(touched) : touched[i].op = "hit"
    /\ touched[1].h \notin Keys(ttable)

(***************************************************************************)
(* Claims about access_ttable (SpecLookup).                                *)
(***************************************************************************)
Cached(tt, h) == tt[CHOOSE i \in 1..Len(tt) : tt[i].h = h].s

\* What one recorded access_ttable call did, from the table before and after
\* it: on a hit the turn component of the cached score comes back (the value is
\* kept multiplied by the number of players) and the entry is last, the other
\* entries in their old order; on a miss upper_sum / players comes back and the
\* table is as it was.
C11_LookupEffect ==
    LET h == looked'.h
        t == looked'.turn
    IN  IF h \in Keys(ttable)
        THEN /\ looked'.value = Cached(ttable, h)[t + 1] * game.players
             /\ Len(ttable') = Len(ttable)
             /\ ttable'[Len(ttable')] = [h |-> h, s |-> Cached(ttable, h)]
             /\ SelectSeq(ttable', LAMBDA e : e.h # h)
                    = SelectSeq(ttable, LAMBDA e : e.h # h)
        ELSE /\ looked'.value = game.upper_sum
             /\ ttable' = ttable

\* C11 (amended): access_ttable returns the turn component of the cached score
\* on a hit and marks the entry most recently used; on a miss it returns
\* upper_sum / players and leaves the table's contents and order unchanged.
C11_AccessTtable == [][AccessTtableCall => C11_LookupEffect]_vars

\* C11 witness: a lookup hit on the least recently used of two entries has
\* moved it to the end and returned a value other than the miss value.
C11_Witness ==
    /\ Len(ttable) = 2 /\ looked.at = 1
    /\ ttable[2].h = looked.h
    /\ looked.value = ttable[2].s[looked.turn + 1] * game.players
    /\ looked.value # game.upper_sum

\* C11 as stated: the value a miss returns differs from every value a hit on
\* the same table can return, so that the caller can tell a miss from a hit.
C11_MissIsSentinel ==
    [][(AccessTtableCall /\ looked'.h \notin Keys(ttable)) =>
          \A i \in 1..Len(ttable), t \in 0..1 :
              ttable[i].s[t + 1] * game.players # looked'.value]_vars

(***************************************************************************)
(* Claims about one agent over several get_move calls (SpecGames).         *)
(***************************************************************************)
\* C12: reset() after any sequence of get_move calls leaves the agent as a
\* freshly constructed agent of the same configuration is: empty table,
\* depth_sum 0, move_count 0, complete true, configuration unchanged. The state
\* after reset() is the state before the first call, so a following get_move
\* can do exactly what a fresh agent's get_move can.
C12_ResetIsFresh ==
    [][Reset => /\ (FreshAgent /\ NoCall)'
                /\ cfg' = cfg /\ game' = game]_vars

\* C12 witness: the agent reset() is called on has answered MaxCalls get_move
\* calls, the last one cut short by the deadline in an incomplete search, and
\* holds cached scores.
C12_Witness ==
    /\ pc = "idle" /\ move_count = MaxCalls
    /\ ttable # <<>> /\ depth_sum > 0 /\ ~complete

\* A step that is part of a get_move call, or hands its move to the caller.
InGetMove == pc # "idle" \/ pc' # "idle"

C13_TableStep ==
    /\ InGetMove =>
          \A h \in Keys(ttable) \ Keys(ttable') :
              /\ Len(ttable) = cfg.t_cap
              /\ ttable[1].h = h
              /\ Keys(ttable') \ Keys(ttable) # {}
    /\ (pc = "idle" /\ pc' = "search") => ttable' = ttable
    /\ (pc = "done" /\ pc' = "idle") => ttable' = ttable

\* C13: get_move never clears the transposition table: the next get_move call
\* starts with the table the last one left, and within get_move an entry
\* leaves the table only as the least recently used entry of a full table when
\* another hash is inserted.
C13_TablePersists == [][C13_TableStep]_vars

\* C13 witness: the second get_move call on an agent starts its first
\* depth_search with entries the first call wrote.
C13_Witness ==
    /\ pc = "search" /\ move_count = 1
    /\ iters = <<1>> /\ Len(stack) = 1 /\ stack[1].st = "call"
    /\ Len(ttable) = 2

(***************************************************************************)
(* Claims about agents without a usable table (SpecPlain).                 *)
(***************************************************************************)
\* The moves in the order valid_moves lists them: what sorted() leaves when
\* every key is the miss value.
ListOrder(n) == [i \in 1..Len(game.kids[n]) |-> i]

\* C14: when the positions have no hash_value or the agent has t_enable false,
\* the table stays empty through every get_move call, every lookup misses (so
\* every expanded position searches its moves in list order); a lookup on a
\* position without a hash is the miss path of access_ttable, not an error.
C14_TableStaysEmpty ==
    (~game.hashed \/ ~cfg.t_enable) =>
        /\ ttable = <<>>
        /\ \A i \in 1..Len(stack) :
              stack[i].st # "call" => stack[i].order = ListOrder(stack[i].node)

\* C14 witness: the second get_move call of an agent with t_enable false, on
\* positions that do have a hash, has searched to depth 2 and returned.
C14_Witness ==
    /\ game.hashed /\ ~cfg.t_enable
    /\ pc = "done" /\ move_count = 2 /\ depth = 2 /\ ttable = <<>>

(***************************************************************************)
(* Claims about get_move on special roots (SpecRoots).                     *)
(***************************************************************************)
\* A depth_search call was made, a move was looked at beyond the root's own
\* valid_moves / turn, or the table was read or written.
SearchBegan == iters # <<>> \/ stack # <<>> \/ ttable # <<>> \/ gameCalls > 1

\* C15: when the root has exactly one legal move, get_move returns it at once:
\* no depth_search call is made and get_next is not called on the root.
C15_SingleMoveNoSearch ==
    (~is_game_over(Root) /\ Cardinality(valid_moves(Root)) = 1) => ~SearchBegan

\* C16: get_move on a root where the game is over, or that has no legal move,
\* ends in an error before any search work: no depth_search call, no get_next
\* call, no table access, and no move returned.
C16_TerminalRootRejected ==
    (is_game_over(Root) \/ valid_moves(Root) = {}) =>
        /\ ~SearchBegan
        /\ pc \in {"idle", "error"}
        /\ result = 0

(***************************************************************************)
(* Claims about the checkers Gamestate (SpecCheckers).                     *)
(***************************************************************************)
\* The four attributes of instance i as a caller holding it reads them.
Observed(w, i) ==
    [board        |-> w.boards[w.states[i].board],
     hash_value   |-> w.states[i].hash_value,
     turn         |-> w.states[i].turn,
     plys_to_draw |-> w.states[i].plys_to_draw]

\* The instance the last get_next was called on.
Receiver(w) == w.log[Len(w.log)].parent

\* C17: get_next(move) returns a new Gamestate and leaves the receiver as it
\* was: the receiver's board, hash value, turn and plys_to_draw read the same
\* after the call as before it, whatever legal move was given (simple move,
\* capture, promotion or continued jump).
C17_GetNextStep ==
    /\ Len(ck'.states) = Len(ck.states) + 1
    /\ Receiver(ck') \in 1..Len(ck.states)
    /\ ck'.states[Len(ck'.states)].board # ck.states[Receiver(ck')].board
    /\ Observed(ck', Receiver(ck')) = Observed(ck, Receiver(ck'))
C17_ReceiverUnchanged == [][GamestateGetNext => C17_GetNextStep]_vars

\* A first jump has been made and the jump has been continued from the state
\* it gave.
C17_Witness ==
    /\ Len(ck.states) = 3
    /\ ck.log[2].kind = "jump"
    /\ ck.log[3].parent = 2
    /\ ck.log[3].move.capt

RECURSIVE XorOver(_, _, _)
\* The XOR of key[square][piece] over the squares in todo that hold a piece.
XorOver(b, key, todo) ==
    IF todo = {} THEN 0
    ELSE LET sq == CHOOSE x \in todo : TRUE
         IN  Xor(IF b[sq] # 0 THEN key[sq][b[sq]] ELSE 0, XorOver(b, key, todo \ {sq}))

Occupied(b) == {sq \in DOMAIN b : b[sq] # 0}

\* C18: the hash kept up to date move by move agrees with the board. Every
\* state made by get_next moves from a first state has as its hash the XOR of
\* hash_key[square][piece] over the occupied squares of its board; two states
\* of one game with equal boards have equal hashes; and setting a square to
\* another piece and back again gives the hash back.
C18_HashMatchesBoard ==
    \A i \in 1..Len(ck.states) :
        LET g == ck.states[i]
            b == ck.boards[g.board]
            u == [b |-> b, h |-> g.hash_value]
        IN  /\ g.hash_value = XorOver(b, ck.key, Occupied(b))
            /\ \A j \in 1..Len(ck.states) :
                  ck.boards[ck.states[j].board] = b
                      => ck.states[j].hash_value = g.hash_value
            /\ \A sq \in SQUARES, piece \in -2..2 :
                  update_board(update_board(u, ck.key, sq, piece), ck.key, sq, b[sq]) = u

\* Two states reached by moves hold equal boards in separate arrays, and a
\* capture has been made.
C18_Witness ==
    /\ Len(ck.states) = 3
    /\ ck.states[2].board # ck.states[3].board
    /\ ck.boards[ck.states[2].board] = ck.boards[ck.states[3].board]
    /\ ck.log[2].move.capt
    /\ ck.log[3].parent = 1

(***************************************************************************)
(* Claims about ParanoidAgent._is_better and ParanoidAgent.prune           *)
(* (SpecParanoid).                                                         *)
(***************************************************************************)
\* The root player's component of a score tuple of the recorded call.
RootPart(tuple) == tuple[applied.root + 1]

\* C19: when new and old differ on the root player's component,
\* ParanoidAgent._is_better(new, old, turn) is True exactly when turn is the
\* root player and new[root] > old[root], or turn is another player and
\* new[root] < old[root], for every number of players and every pair of root
\* and mover.
C19_IsBetterByRootScore ==
    (applied.fn = "is_better" /\ RootPart(applied.new) # RootPart(applied.old))
        => (applied.out <=>
               \/ applied.mover = applied.root /\ RootPart(applied.new) > RootPart(applied.old)
               \/ applied.mover # applied.root /\ RootPart(applied.new) < RootPart(applied.old))

\* C20: with pruning enabled ParanoidAgent.prune is True exactly when the mover
\* is the root player and best[root] > beta, or the mover is another player
\* and best[root] < alpha; with pruning disabled it is False.
C20_PruneByMover ==
    applied.fn = "prune"
        => (applied.out <=>
               /\ applied.pruning
               /\ \/ applied.mover = applied.root /\ RootPart(applied.new) > applied.beta
                  \/ applied.mover # applied.root /\ RootPart(applied.new) < applied.alpha)

(***************************************************************************)
(* Claims about the arguments depth_search hands down (SpecWindow).        *)
(***************************************************************************)
\* The root player's component of the best score frame f holds.
BestRoot(f) == f.best_score[root_turn + 1]

\* C21: the window a ParanoidAgent frame hands to a child comes from its own
\* window and best score. The root call has (alpha, beta) = (-inf, +inf); the
\* first child is called with the caller's window; a later child is called
\* with alpha = max(alpha, best[root]) where the root player moves and with
\* beta = min(beta, best[root]) elsewhere; so down the stack alpha never
\* falls and beta never rises.
C21_WindowFromParent ==
    (cfg.kind = "paranoid" /\ pc = "search" /\ stack # <<>>) =>
        /\ stack[1].kw.alpha = -Inf /\ stack[1].kw.beta = Inf
        /\ \A i \in 1..(Len(stack) - 1) :
              LET f == stack[i]
                  c == stack[i + 1]
              IN  /\ f.idx = 1 => c.kw.alpha = f.kw.alpha /\ c.kw.beta = f.kw.beta
                  /\ (f.idx > 1 /\ turn(f.node) = root_turn) =>
                        /\ c.kw.alpha = Max(f.kw.alpha, BestRoot(f))
                        /\ c.kw.beta = f.kw.beta
                  /\ (f.idx > 1 /\ turn(f.node) # root_turn) =>
                        /\ c.kw.alpha = f.kw.alpha
                        /\ c.kw.beta = Min(f.kw.beta, BestRoot(f))
                  /\ c.kw.alpha >= f.kw.alpha
                  /\ c.kw.beta <= f.kw.beta

\* A later child of a position where another player moves is called under a
\* window already narrowed on both sides, with a best score above beta.
C21_Witness ==
    /\ cfg.kind = "paranoid" /\ pc = "search"
    /\ \E i \in 1..(Len(stack) - 1) :
          /\ stack[i].idx > 1
          /\ turn(stack[i].node) # root_turn
          /\ stack[i].kw.alpha > -Inf
          /\ stack[i].kw.beta < Inf
          /\ BestRoot(stack[i]) > stack[i].kw.beta

\* The mover's component of the best score frame f holds.
BestMover(f) == f.best_score[turn(f.node) + 1]

\* The bound every frame below a caller was called with.
C22_BoundHandedDown ==
    (cfg.kind = "maxn" /\ pc = "search") =>
        \A i \in 1..(Len(stack) - 1) :
            LET f == stack[i]
            IN  stack[i + 1].kw.bound =
                    game.upper_sum - (IF f.idx = 1 THEN game.lower ELSE BestMover(f))
                                   - (game.players - 2) * game.lower

\* A frame with children left takes a child's result: it returns at once
\* exactly when pruning is on and its best score has reached its own bound.
C22_StopStep ==
    (cfg.kind = "maxn" /\ Resuming /\ ret.tag = "ok" /\ Top.idx < Len(Top.order)) =>
        LET bound == Top.kw.bound
            mover == turn(Top.node) + 1
        IN  IF Len(stack') < Len(stack)
            THEN cfg.pruning /\ ret'.score[mover] >= bound
            ELSE ~(cfg.pruning /\ stack'[Len(stack)].best_score[mover] >= bound)

\* C22: in MaxnAgent the bound a position hands to a child is
\* upper_sum - best[mover] - (players - 2) * lower, with best[mover] = lower
\* for the first child whatever bound the position itself received; with
\* pruning on, a position gives up its remaining children exactly when its
\* best[mover] >= the bound it received, and with pruning off never.
C22_ShallowBound == [](C22_BoundHandedDown) /\ [][C22_StopStep]_vars

\* A three-player position called under a bound below the widest one cuts
\* off its second child, its best score being equal to the bound.
C22_Witness ==
    /\ cfg.kind = "maxn" /\ cfg.pruning /\ game.players = 3
    /\ Resuming /\ ret.tag = "ok"
    /\ Len(stack) > 1
    /\ Top.idx = 1 /\ Len(Top.order) > 1
    /\ ret.score[turn(Top.node) + 1] = Top.kw.bound

\* The scores of the children of vertex n, each a leaf or searched to depth 0.
ChildScores(n) == {score(game.kids[n][i]) : i \in 1..Len(game.kids[n])}

\* The children's scores that are best for the mover at n.
TiedBest(n) ==
    {s \in ChildScores(n) : \A o \in ChildScores(n) : s[turn(n) + 1] >= o[turn(n) + 1]}

\* A MaxnAgent frame called with depth 1 returns after its last child.
C23_LastChildTaken ==
    /\ cfg.kind = "maxn"
    /\ Resuming /\ ret.tag = "ok"
    /\ Top.depth = 1
    /\ Top.idx = Len(Top.order)
    /\ Len(stack') < Len(stack)

\* C23: in MaxnAgent, of the children that tie on the mover's own component
\* the best score kept is one with the smallest root-player component, in
\* whatever order they were searched; random.choice decides only between
\* children equal on both components.
C23_TieKeepsSmallestRoot ==
    [][C23_LastChildTaken =>
          \A s \in TiedBest(Top.node) : ret'.score[root_turn + 1] <= s[root_turn + 1]]_vars

(***************************************************************************)
(* Claims about the complete flag and the principal variation (Spec).      *)
(***************************************************************************)
\* C24: when an iteration that did not time out ends, complete is false if and
\* only if that iteration entered depth_search with depth 0 on a position that
\* is not terminal. Terminal positions, at any remaining depth, and cut-offs
\* leave the flag alone, and every iteration starts with the flag true.
C24_CompleteIffNoHorizon ==
    /\ (pc = "search" /\ ~timedOut) => (complete <=> ~horizon)
    /\ (pc = "search" /\ stack # <<>> /\ Len(stack) = 1 /\ Top.st = "call") => complete

\* The second iteration has ended in time with the flag cleared.
C24_Witness ==
    /\ Returned /\ ret.tag = "ok"
    /\ depth = 2
    /\ ~complete /\ horizon

\* The vertices of the tree handed to get_move.
Vertices == {n \in Nodes : InTree(game.kids, n)}
\* The longest line from the root to a terminal position.
Height == CHOOSE h \in 0..Cardinality(Nodes) :
              /\ \E n \in Vertices : LevelOf(game.kids, n) = h
              /\ \A n \in Vertices : LevelOf(game.kids, n) <= h
\* A search to depth d reaches no position with moves left at remaining depth 0.
Exhausts(d) == \A n \in Vertices : LevelOf(game.kids, n) = d => is_game_over(n)
FirstFullDepth == CHOOSE d \in 1..Cardinality(Nodes) :
                      Exhausts(d) /\ \A e \in 1..(d - 1) : ~Exhausts(e)

C25_ReturnsAtFullDepth ==
    (Done /\ ~timedOut /\ ~cfg.pruning) =>
        /\ depth = FirstFullDepth
        /\ depth <= Height
        /\ Len(iters) = depth

\* C25: on a finite tree get_move terminates. Without pruning and without
\* expiry it returns at the end of the iteration of the smallest depth at
\* which no position with moves left is reached at remaining depth 0, a depth
\* no larger than the tree's height; and it returns in every case, the
\* deadline being read at every depth_search entry.
C25_GetMoveTerminates == <>Done /\ []C25_ReturnsAtFullDepth

\* An unpruned call on a tree of height 3 has returned from its third
\* iteration.
C25_Witness ==
    /\ Done /\ ~timedOut /\ ~cfg.pruning
    /\ Height = 3 /\ depth = 3

\* pv as a line from the position: the move made first comes first.
Reversed(pv) == [i \in 1..Len(pv) |-> pv[Len(pv) + 1 - i]]

RECURSIVE IsLine(_, _)
\* Every move of the line is legal where it is made.
IsLine(n, line) ==
    \/ line = <<>>
    \/ /\ line[1] \in valid_moves(n)
       /\ IsLine(get_next(n, line[1]), Tail(line))

RECURSIVE LineEnd(_, _)
\* The position the line leads to.
LineEnd(n, line) ==
    IF line = <<>> THEN n ELSE LineEnd(get_next(n, line[1]), Tail(line))

\* A depth_search call returns a score and a principal variation.
C26_ReturnStep ==
    (pc = "search" /\ stack # <<>> /\ Len(stack') < Len(stack) /\ ret'.tag = "ok") =>
        LET line == Reversed(ret'.pv)
        IN  /\ Len(ret'.pv) <= Top.depth
            /\ IsLine(Top.node, line)
            /\ ret'.score = score(LineEnd(Top.node, line))
            /\ (ret'.pv = <<>>) <=> (is_game_over(Top.node) \/ Top.depth = 0)

\* get_move takes the move of the root's result.
C26_ChoiceStep ==
    (Returned /\ ret.tag = "ok") =>
        /\ saved_move' = Reversed(ret.pv)[1]
        /\ saved_move' \in valid_moves(Root)

\* C26: a depth_search(position, depth) call that returns a result that is not
\* expired returns (score, pv) where pv has at most depth moves, pv read
\* backwards is a line of legal moves from position, score is the game's score
\* of the position at the end of that line, and pv is empty exactly when
\* position is terminal or depth is 0; get_move's choice pv[-1] is the first
\* move of the root's line.
C26_PrincipalVariation == [][C26_ReturnStep /\ C26_ChoiceStep]_vars

\* The root's call of the third iteration has returned a line of three moves
\* whose first move is not the first of the list.
C26_Witness ==
    /\ Returned /\ ret.tag = "ok"
    /\ Len(ret.pv) = 3
    /\ ret.pv[3] # 1

(***************************************************************************)
(* Claims about move ordering and table writes (SpecOrder).                *)
(***************************************************************************)
\* The component the agent class sorts the children of n by.
SortTurn(n) == IF cfg.kind = "maxn" THEN turn(n) ELSE root_turn
\* The children of n go largest key first.
SortDescending(n) == cfg.kind = "maxn" \/ turn(n) = root_turn
\* The key of move m at n under table tt: the cached component of the position
\* the move leads to, or the value a miss gives.
SortKey(tt, n, m) ==
    LET h == hash_value(get_next(n, m))
    IN  IF has_hash(get_next(n, m)) /\ h \in Keys(tt)
        THEN Cached(tt, h)[SortTurn(n) + 1] * game.players
        ELSE game.upper_sum

\* A frame sorts the moves of its position and calls the first child.
C27_OrderStep ==
    (cfg.kind # "iddfs" /\ Entering /\ Len(stack') > Len(stack)) =>
        LET n     == Top.node
            order == stack'[Len(stack)].order
            k     == Len(order)
        IN  /\ k = Cardinality(valid_moves(n))
            /\ \A m \in valid_moves(n) : \E q \in 1..k : order[q] = m
            /\ \A q \in 1..(k - 1) :
                  LET a == SortKey(ttable, n, order[q])
                      b == SortKey(ttable, n, order[q + 1])
                  IN  /\ IF SortDescending(n) THEN a >= b ELSE a <= b
                      /\ a = b => order[q] < order[q + 1]
            /\ stack'[Len(stack')].node = get_next(n, order[1])

\* A frame calls a later child: the position its next move leads to.
C27_PairStep ==
    (cfg.kind # "iddfs" /\ Resuming /\ Len(stack') > Len(stack)) =>
        /\ stack'[Len(stack)].order = Top.order
        /\ stack'[Len(stack')].node = get_next(Top.node, Top.order[Top.idx + 1])

\* C27: order_moves of MaxnAgent and ParanoidAgent gives every legal move of
\* the position once, each with the position get_next gives for it. MaxnAgent
\* sorts by the cached mover component, largest first; ParanoidAgent by the
\* cached root-player component, largest first where the root player moves
\* and smallest first elsewhere; moves with equal keys stay in the game's
\* move order.
C27_OrderMoves == [][C27_OrderStep /\ C27_PairStep]_vars

\* A ParanoidAgent frame of a position where the other player moves searches
\* its second move first.
C27_Witness ==
    /\ cfg.kind = "paranoid" /\ pc = "search"
    /\ \E i \in 1..Len(stack) :
          /\ stack[i].st = "loop"
          /\ turn(stack[i].node) # root_turn
          /\ stack[i].order = <<2, 1>>

\* The (hash, score) pairs a table holds.
Entries(tt) == {tt[i] : i \in 1..Len(tt)}

\* One step of a running search, by what it does to the table.
C28_WriteStep ==
    (pc = "search" /\ stack # <<>> /\ cfg.t_enable /\ game.hashed) =>
        IF Top.st = "loop" /\ ret.tag = "ok" /\ Len(stack') < Len(stack)
        THEN \* the frame has finished its children and returns
             /\ ttable' # <<>>
             /\ ttable'[Len(ttable')] = [h |-> hash_value(Top.node), s |-> ret'.score]
             /\ \A i \in 1..(Len(ttable') - 1) :
                   ttable'[i] \in Entries(ttable) /\ ttable'[i].h # hash_value(Top.node)
        ELSE IF Top.st = "call" /\ Len(stack') > Len(stack)
        THEN \* the frame sorts its moves: lookups reorder the table only
             Entries(ttable') = Entries(ttable)
        ELSE \* terminal, depth 0, expired, or between two children
             ttable' = ttable

\* C28: with the table enabled and positions hashable, a depth_search frame
\* writes its position's hash with the best score it returns exactly once,
\* when it has finished iterating its children, a cut-off included, and the
\* entry is then the most recently used one; a frame that returns at a
\* terminal position, at depth 0 or expired writes nothing.
C28_OneWritePerFrame == [][C28_WriteStep]_vars

\* A frame whose position already has an entry from the iteration before
\* holds a best score that cuts off its last move: its next step is the write.
C28_Witness ==
    /\ Resuming /\ ret.tag = "ok"
    /\ cfg.t_enable /\ game.hashed
    /\ Len(stack) > 1
    /\ Top.idx = 1 /\ Len(Top.order) = 2
    /\ prune(Top.node, ret.score, Top.kw)
    /\ hash_value(Top.node) \in Keys(ttable)
    /\ ttable[Len(ttable)].h # hash_value(Top.node)

(***************************************************************************)
(* Claims about draws in checkers (SpecDraw).                              *)
(***************************************************************************)
RECURSIVE LineOfPlay(_, _)
\* The instances from the first state of the game to instance i.
LineOfPlay(w, i) ==
    IF i = 0 THEN {} ELSE {i} \cup LineOfPlay(w, w.log[i].parent)

\* How often the position of instance i, with its player to move, occurs in
\* the line of play that leads to it, itself included.
Occurrences(w, i) ==
    Cardinality({a \in LineOfPlay(w, i) :
                    /\ w.boards[w.states[a].board] = w.boards[w.states[i].board]
                    /\ w.states[a].turn = w.states[i].turn})

\* C29: winner reports a draw by repetition for a state only when its
\* position has occurred at least three times, with the same player to move,
\* in the line of play leading to it; states made by get_next on other
\* branches, or by repeating a get_next call, never make it a draw.
C29_DrawNeedsThreeInLine ==
    \A i \in 1..Len(ck.states) :
        (/\ winner(ck, i) = -1
         /\ ck.states[i].plys_to_draw < 80) => Occurrences(ck, i) >= 3

(***************************************************************************)
(* Claims about restarts of a checkers Match (SpecMatch).                  *)
(***************************************************************************)
\* C30: every agent reply that _run_game applies was computed from the
\* current gamestate of the current game; a reply computed for a game that a
\* restart abandoned is never applied to the restarted game, whatever the
\* order of restart presses, agent replies and manual moves.
C30_ReplyFromCurrentGamestate ==
    (match.running /\ match.last.any) => match.last.source = match.last.current

\* The same, looking only at the position: the reply applied was computed
\* from a gamestate with as many plys as the one it replaces.
C30_ReplyFromCurrentPosition ==
    (match.running /\ match.last.any) => match.last.source.plys = match.last.current.plys

\* With one restart at most waiting for its stale reply, the replies applied
\* come from the current gamestate: a reply is dropped after a restart.
C30_StaleReplyDropped ==
    (match.running /\ match.last.any /\ match.games <= 2)
        => match.last.source = match.last.current

=============================================================================
